---- MODULE Spec2Model ----
(***************************************************************************)
(* A model of the Gate.io futures trading adapter                          *)
(* (src/trader/gateio_futures.go): the metadata caches, the coin-quantity  *)
(* to contract-size conversion and formatting, and the order operations.   *)
(*                                                                         *)
(* Conventions of the model                                                *)
(*  - a Go string is a sequence of one-character strings;                  *)
(*  - a float64 is an exact rational [n |-> numerator, d |-> denominator], *)
(*    d > 0, in lowest terms.  The one place where the binary value of a   *)
(*    float64 decides an outcome the rational does not determine, the      *)
(*    direction of a rounding tie in Sprintf("%.Nf"), is an input of the   *)
(*    operation (tieUp);                                                   *)
(*  - a Go error is a string naming its kind, "" is the nil error;         *)
(*  - every operation is one action; the upstream responses it may get    *)
(*    are inputs of the action, and the upstream calls it makes are        *)
(*    recorded, in order, in last.calls;                                   *)
(*  - a Go function whose body goes on after a call it makes is written as *)
(*    the function up to the call and an operator for the rest, which      *)
(*    takes the value the call returned.                                   *)
(***************************************************************************)
EXTENDS Integers, Sequences, FiniteSets, TLC

VARIABLES now,                  \* the clock, in seconds
          cachedBalance,        \* t.cachedBalance
          balanceCacheTime,     \* t.balanceCacheTime
          cachedPositions,      \* t.cachedPositions
          positionsCacheTime,   \* t.positionsCacheTime
          symbolInfoCache,      \* t.symbolInfoCache
          symbolInfoCacheTime,  \* t.symbolInfoCacheTime
          ticks,                \* how many times the clock has advanced
          last,                 \* the last invocation: inputs, result, calls made
          goroutines,           \* concurrent callers: where each one is, its locals
          locks                 \* the three sync.RWMutex of the caches

vars == <<now, cachedBalance, balanceCacheTime, cachedPositions,
          positionsCacheTime, symbolInfoCache, symbolInfoCacheTime, ticks, last,
          goroutines, locks>>

----------------------------------------------------------------------------
(* Numbers: float64 as exact rationals.                                    *)

Abs(x) == IF x < 0 THEN -x ELSE x

RECURSIVE GCD(_, _)
GCD(a, b) == IF b = 0 THEN a ELSE GCD(b, a % b)

RECURSIVE Pow10(_)
Pow10(k) == IF k <= 0 THEN 1 ELSE 10 * Pow10(k - 1)

Rat(n, d) ==
    LET g == GCD(Abs(n), Abs(d))
        s == IF d < 0 THEN -1 ELSE 1
    IN  [n |-> (s * n) \div g, d |-> Abs(d) \div g]

RatInt(k) == [n |-> k, d |-> 1]
RatMul(x, y) == Rat(x.n * y.n, x.d * y.d)
RatDiv(x, y) == Rat(x.n * y.d, x.d * y.n)
RatNeg(x) == [n |-> -x.n, d |-> x.d]
RatLt(x, y) == x.n * y.d < y.n * x.d
RatLe(x, y) == x.n * y.d <= y.n * x.d
RatPos(x) == x.n > 0
RatIsZero(x) == x.n = 0

\* int64(x): Go's conversion of a float64 to an integer truncates toward zero.
Int64(x) == IF x.n >= 0 THEN x.n \div x.d ELSE -((-x.n) \div x.d)

----------------------------------------------------------------------------
(* Strings and the strconv / fmt conversions.                              *)

Digits == <<"0", "1", "2", "3", "4", "5", "6", "7", "8", "9">>
IsDigit(c) == \E i \in 1..10 : Digits[i] = c
DigitVal(c) == (CHOOSE i \in 1..10 : Digits[i] = c) - 1

RECURSIVE DigitsVal(_)
DigitsVal(s) ==
    IF Len(s) = 0 THEN 0
    ELSE 10 * DigitsVal(SubSeq(s, 1, Len(s) - 1)) + DigitVal(s[Len(s)])

RECURSIVE NatToDigits(_)
NatToDigits(k) ==
    IF k < 10 THEN <<Digits[k + 1]>>
    ELSE NatToDigits(k \div 10) \o <<Digits[(k % 10) + 1]>>

Contains(s, c) == \E i \in 1..Len(s) : s[i] = c

\* strings.Split(s, "."): the pieces of s between the dots.
RECURSIVE SplitDot(_)
SplitDot(s) ==
    IF ~Contains(s, ".") THEN <<s>>
    ELSE LET i == CHOOSE j \in 1..Len(s) :
                      s[j] = "." /\ \A k \in 1..(j - 1) : s[k] # "."
         IN  <<SubSeq(s, 1, i - 1)>> \o SplitDot(SubSeq(s, i + 1, Len(s)))

\* The value of the digits ip before and fp after the dot.
ParseDigits(neg, ip, fp) ==
    IF /\ \A i \in 1..Len(ip) : IsDigit(ip[i])
       /\ \A i \in 1..Len(fp) : IsDigit(fp[i])
       /\ Len(ip) + Len(fp) > 0
    THEN [ok |-> TRUE,
          val |-> Rat((IF neg THEN -1 ELSE 1)
                        * (DigitsVal(ip) * Pow10(Len(fp)) + DigitsVal(fp)),
                      Pow10(Len(fp)))]
    ELSE [ok |-> FALSE, val |-> RatInt(0)]

ParseParts(neg, parts) ==
    IF Len(parts) > 2 THEN [ok |-> FALSE, val |-> RatInt(0)]
    ELSE ParseDigits(neg, parts[1], IF Len(parts) = 2 THEN parts[2] ELSE <<>>)

\* strconv.ParseFloat(s, 64) on decimal notation: an optional sign, digits
\* with at most one dot, at least one digit.  [ok, val]; val is 0 on failure.
ParseFloat(s) ==
    IF Len(s) > 0 /\ s[1] \in {"-", "+"}
    THEN ParseParts(s[1] = "-", SplitDot(Tail(s)))
    ELSE ParseParts(FALSE, SplitDot(s))

\* The first k fractional digits of r / d (0 <= r < d), by long division,
\* and the remainder left after them.
RECURSIVE FracDigits(_, _, _)
FracDigits(r, d, k) ==
    IF k = 0 THEN [digits |-> <<>>, rem |-> r]
    ELSE LET rest == FracDigits((r * 10) % d, d, k - 1)
         IN  [digits |-> <<Digits[((r * 10) \div d) + 1]>> \o rest.digits,
              rem |-> rest.rem]

\* A digit string plus one in its last place.
RECURSIVE IncDigits(_)
IncDigits(s) ==
    IF Len(s) = 0 THEN <<"1">>
    ELSE IF s[Len(s)] = "9"
    THEN IncDigits(SubSeq(s, 1, Len(s) - 1)) \o <<"0">>
    ELSE SubSeq(s, 1, Len(s) - 1) \o <<Digits[DigitVal(s[Len(s)]) + 2]>>

\* The digits of the rounded value: those of the truncated one, plus one in
\* the last place when the rest is more than half, or half and tieUp.
RoundDigits(ip, fr, d, tieUp) ==
    IF 2 * fr.rem > d \/ (2 * fr.rem = d /\ tieUp)
    THEN IncDigits(ip \o fr.digits)
    ELSE ip \o fr.digits

PlaceDot(prec, neg, all) ==
    (IF neg THEN <<"-">> ELSE <<>>)
    \o (IF prec = 0 THEN all
        ELSE SubSeq(all, 1, Len(all) - prec) \o <<".">>
                 \o SubSeq(all, Len(all) - prec + 1, Len(all)))

\* fmt.Sprintf("%.<prec>f", x): x rounded to prec fractional digits, written
\* with exactly prec fractional digits (no dot when prec = 0).  When the
\* rational lies exactly half way between two neighbours, tieUp tells on
\* which side the float64 falls.
SprintfF(prec, x, tieUp) ==
    PlaceDot(prec, x.n < 0,
             RoundDigits(NatToDigits(Abs(x.n) \div x.d),
                         FracDigits(Abs(x.n) % x.d, x.d, prec), x.d, tieUp))

----------------------------------------------------------------------------
(* Symbol spelling.                                                        *)

HasSuffix(s, suf) ==
    Len(s) >= Len(suf) /\ SubSeq(s, Len(s) - Len(suf) + 1, Len(s)) = suf

Suffixes == << <<"U","S","D","T">>, <<"U","S","D","C">>, <<"B","U","S","D">>,
               <<"T","U","S","D">>, <<"D","A","I">>, <<"U","S","D">> >>

\* The last suffix of the list the symbol ends with, 0 if none.
LastSuffix(symbol) ==
    IF \E i \in 1..Len(Suffixes) : HasSuffix(symbol, Suffixes[i])
    THEN CHOOSE j \in 1..Len(Suffixes) :
            /\ HasSuffix(symbol, Suffixes[j])
            /\ \A k \in (j + 1)..Len(Suffixes) : ~HasSuffix(symbol, Suffixes[k])
    ELSE 0

\* The first suffix of the list the symbol ends with, 0 if none.
FirstSuffix(symbol) ==
    IF \E i \in 1..Len(Suffixes) : HasSuffix(symbol, Suffixes[i])
    THEN CHOOSE j \in 1..Len(Suffixes) :
            /\ HasSuffix(symbol, Suffixes[j])
            /\ \A k \in 1..(j - 1) : ~HasSuffix(symbol, Suffixes[k])
    ELSE 0

InsertSeparator(symbol, n) ==
    SubSeq(symbol, 1, Len(symbol) - n) \o <<"_">>
        \o SubSeq(symbol, Len(symbol) - n + 1, Len(symbol))

SplitAtSuffix(symbol, i) ==
    IF i > 0 THEN InsertSeparator(symbol, Len(Suffixes[i]))
    ELSE IF Len(symbol) > 4 THEN InsertSeparator(symbol, 4)
    ELSE symbol

normalizeSymbolForGateIO(symbol) ==
    IF Contains(symbol, "_") THEN symbol
    ELSE SplitAtSuffix(symbol, FirstSuffix(symbol))

\* A denormalization that keeps the base, the text before the separator.
RECURSIVE DenormalizeBase(_)
DenormalizeBase(symbol) ==
    IF symbol = <<>> \/ Head(symbol) = "_" THEN <<>>
    ELSE <<Head(symbol)>> \o DenormalizeBase(Tail(symbol))

DenormalizeSymbolFromGateIO(symbol) ==
    IF ~Contains(symbol, "_") THEN symbol
    ELSE SelectSeq(symbol, LAMBDA c : c # "_")

----------------------------------------------------------------------------
(* The record of an invocation.                                            *)

\* One entry of last.calls: an upstream call (api is the SDK method) or the
\* return of an internal step (api is the method, ok its success).
Call(api) == [api |-> api, contract |-> <<>>, arg |-> <<>>, size |-> 0,
              price |-> <<>>, trigger |-> <<>>, reduceOnly |-> FALSE,
              close |-> FALSE, tif |-> "", ok |-> TRUE]

Step(api, ok) == [Call(api) EXCEPT !.ok = ok]

NoContract == [Name |-> <<>>, QuantoMultiplier |-> <<>>, OrderSizeMin |-> 0,
               OrderPriceRound |-> <<>>]

----------------------------------------------------------------------------
(* The symbol table cache.  A cache state is [cache, time]; an operation   *)
(* that may refresh it returns the new cache state with its result.        *)

SymbolInfoTTL == 300

EmptyTable == [s \in {} |-> NoContract]

\* The map the refresh builds from the contract list: a later entry of the
\* same name replaces an earlier one.
TableOf(contracts) ==
    [name \in {contracts[i].Name : i \in 1..Len(contracts)} |->
        contracts[CHOOSE i \in 1..Len(contracts) :
                      /\ contracts[i].Name = name
                      /\ \A j \in (i + 1)..Len(contracts) : contracts[j].Name # name]]

\* getSymbolInfo after the refresh: the lookup in the new table.
SymbolInfoRefreshed(gateIOSymbol, fresh) ==
    IF gateIOSymbol \in DOMAIN fresh.cache
    THEN [err |-> "", info |-> fresh.cache[gateIOSymbol], sc |-> fresh,
          calls |-> <<Call("ListFuturesContracts")>>]
    ELSE [err |-> "SymbolNotFound", info |-> NoContract, sc |-> fresh,
          calls |-> <<Call("ListFuturesContracts")>>]

\* The lookup with a refresh that merges the list into the table it finds.
SymbolInfoLookupMerging(sc, gateIOSymbol, up) ==
    IF /\ gateIOSymbol \in DOMAIN sc.cache
       /\ now - sc.time < SymbolInfoTTL
    THEN [err |-> "", info |-> sc.cache[gateIOSymbol], sc |-> sc, calls |-> <<>>]
    ELSE IF up.contracts.err
    THEN [err |-> "Upstream", info |-> NoContract, sc |-> sc,
          calls |-> <<Call("ListFuturesContracts")>>]
    ELSE SymbolInfoRefreshed(gateIOSymbol,
                             [cache |-> TableOf(up.contracts.list) @@ sc.cache,
                              time |-> now])

\* getSymbolInfo once the symbol is in exchange spelling.
SymbolInfoLookup(sc, gateIOSymbol, up) ==
    IF /\ gateIOSymbol \in DOMAIN sc.cache
       /\ now - sc.time < SymbolInfoTTL
    THEN [err |-> "", info |-> sc.cache[gateIOSymbol], sc |-> sc, calls |-> <<>>]
    ELSE IF up.contracts.err
    THEN [err |-> "Upstream", info |-> NoContract, sc |-> sc,
          calls |-> <<Call("ListFuturesContracts")>>]
    ELSE SymbolInfoRefreshed(gateIOSymbol,
                             [cache |-> TableOf(up.contracts.list), time |-> now])

\* [err, info, sc, calls]
getSymbolInfo(sc, symbol, up) ==
    SymbolInfoLookup(sc, normalizeSymbolForGateIO(symbol), up)

\* The multiplier of a parsed quanto_multiplier: 1 when it did not parse or
\* is not positive.
MultiplierOr1(parsed) ==
    IF parsed.ok /\ RatPos(parsed.val) THEN parsed.val ELSE RatInt(1)

\* The multiplier the conversions use: the parsed quanto_multiplier, 1 when
\* it is empty, unparseable or not positive.
QuantoMultiplierOf(info) ==
    IF info.QuantoMultiplier # <<>>
    THEN MultiplierOr1(ParseFloat(info.QuantoMultiplier))
    ELSE RatInt(1)

ConvertWithInfo(r, coinQuantity) ==
    IF r.err # ""
    THEN [err |-> "Convert", contractSize |-> RatInt(0), sc |-> r.sc,
          calls |-> r.calls]
    ELSE [err |-> "", sc |-> r.sc, calls |-> r.calls,
          contractSize |-> RatDiv(coinQuantity, QuantoMultiplierOf(r.info))]

\* [err, contractSize, sc, calls]
convertCoinQuantityToContractSize(sc, symbol, coinQuantity, up) ==
    ConvertWithInfo(getSymbolInfo(sc, symbol, up), coinQuantity)

PriceOfTicker(call, parsed) ==
    IF ~parsed.ok THEN [err |-> "Price", price |-> RatInt(0), calls |-> <<call>>]
    ELSE [err |-> "", price |-> parsed.val, calls |-> <<call>>]

PriceOfTickers(call, tickers) ==
    IF tickers.err \/ Len(tickers.list) = 0
    THEN [err |-> "Price", price |-> RatInt(0), calls |-> <<call>>]
    ELSE PriceOfTicker(call, ParseFloat(tickers.list[1]))

\* [err, price, calls]
GetMarketPrice(symbol, up) ==
    PriceOfTickers([Call("ListFuturesTickers") EXCEPT
                        !.contract = normalizeSymbolForGateIO(symbol)],
                   up.tickers)

----------------------------------------------------------------------------
(* FormatQuantity.                                                         *)

DefaultPrecision == 3

PrecisionOfParts(parts) ==
    IF Len(parts) = 2 THEN Len(parts[2]) ELSE DefaultPrecision

\* The precision FormatQuantity and GetMinOpenAmount derive from
\* OrderPriceRound.
PrecisionOf(info) ==
    IF info.OrderPriceRound # <<>> /\ Contains(info.OrderPriceRound, ".")
    THEN PrecisionOfParts(SplitDot(info.OrderPriceRound))
    ELSE DefaultPrecision

\* The minimum order size check with <= for <.
BelowOrAtMinimumSize(info, contractSize) ==
    /\ info.OrderSizeMin > 0
    /\ RatLe(contractSize, RatInt(info.OrderSizeMin))

\* The minimum order size check on the converted contract size.
BelowMinimumSize(info, contractSize) ==
    /\ info.OrderSizeMin > 0
    /\ RatLt(contractSize, RatInt(info.OrderSizeMin))

\* The check of the formatted value with < for <=.
Negative(formattedFloat) ==
    ~formattedFloat.ok \/ RatLt(formattedFloat.val, RatInt(0))

NotPositive(formattedFloat) ==
    ~formattedFloat.ok \/ RatLe(formattedFloat.val, RatInt(0))

\* The check on the formatted string: it does not parse, or parses to <= 0.
ZeroAfterRounding(formatted) == NotPositive(ParseFloat(formatted))

\* FormatQuantity after the formatting: the check of the formatted value.
FormatRounded(res, priceCalls, formatted) ==
    IF ZeroAfterRounding(formatted)
    THEN [res EXCEPT !.err = "ZeroAfterRounding", !.calls = @ \o priceCalls]
    ELSE [res EXCEPT !.str = formatted]

\* FormatQuantity after the conversion: the minimum size check, then the
\* formatting.  The price is fetched for the text of the two errors only.
FormatConverted(res, info, c, priceCalls, tieUp) ==
    IF c.err # "" THEN [res EXCEPT !.err = "Convert"]
    ELSE IF BelowMinimumSize(info, c.contractSize)
    THEN [res EXCEPT !.err = "BelowMinimumSize", !.calls = @ \o priceCalls]
    ELSE FormatRounded(res, priceCalls,
                       SprintfF(PrecisionOf(info), c.contractSize, tieUp))

\* A FormatQuantity that refuses a zero result on the unresolved path too.
FormatWithInfoChecked(r, c, symbol, quantity, up, tieUp) ==
    IF r.err # ""
    THEN FormatRounded([err |-> "", str |-> <<>>, resolved |-> FALSE,
                        info |-> NoContract, sc |-> r.sc, calls |-> r.calls],
                       <<>>, SprintfF(DefaultPrecision, quantity, tieUp))
    ELSE FormatConverted([err |-> "", str |-> <<>>, resolved |-> TRUE,
                          info |-> r.info, sc |-> c.sc, calls |-> r.calls \o c.calls],
                         r.info, c, GetMarketPrice(symbol, up).calls, tieUp)

\* FormatQuantity after getSymbolInfo.
FormatWithInfo(r, c, symbol, quantity, up, tieUp) ==
    IF r.err # ""
    THEN [err |-> "", str |-> SprintfF(DefaultPrecision, quantity, tieUp),
          resolved |-> FALSE, info |-> NoContract, sc |-> r.sc, calls |-> r.calls]
    ELSE FormatConverted([err |-> "", str |-> <<>>, resolved |-> TRUE,
                          info |-> r.info, sc |-> c.sc, calls |-> r.calls \o c.calls],
                         r.info, c, GetMarketPrice(symbol, up).calls, tieUp)

FormatQuantityFrom(r, symbol, quantity, up, tieUp) ==
    FormatWithInfo(r, convertCoinQuantityToContractSize(r.sc, symbol, quantity, up),
                   symbol, quantity, up, tieUp)

\* [err, str, resolved, info, sc, calls]: str is the formatted contract size;
\* resolved and info tell whether, and to what, the symbol spec resolved.
FormatQuantity(sc, symbol, quantity, up, tieUp) ==
    FormatQuantityFrom(getSymbolInfo(sc, symbol, up), symbol, quantity, up, tieUp)

----------------------------------------------------------------------------
(* The balance and positions caches.                                       *)

CacheDuration == 15

NilBalance == [isNil |-> TRUE, totalWalletBalance |-> RatInt(0),
               availableBalance |-> RatInt(0),
               totalUnrealizedProfit |-> RatInt(0)]

\* v, _ := strconv.ParseFloat(s, 64)
ParseOrZero(s) == ParseFloat(s).val

\* The map GetBalance builds from the account.
BalanceOf(account) ==
    [isNil |-> FALSE,
     totalWalletBalance |-> ParseOrZero(account.Total),
     availableBalance |-> ParseOrZero(account.Available),
     totalUnrealizedProfit |-> ParseOrZero(account.UnrealisedPnl)]

BalanceFetched(result) ==
    [err |-> "", balance |-> result, bc |-> [value |-> result, time |-> now],
     calls |-> <<Call("ListFuturesAccounts")>>]

\* The freshness test with <= for <.
BalanceFreshInclusive(bc) ==
    ~bc.value.isNil /\ now - bc.time <= CacheDuration

\* The cached balance is there and younger than the TTL.
BalanceFresh(bc) ==
    ~bc.value.isNil /\ now - bc.time < CacheDuration

\* [err, balance, bc, calls]; bc is the cache state [value, time].
GetBalance(bc, up) ==
    IF BalanceFresh(bc)
    THEN [err |-> "", balance |-> bc.value, bc |-> bc, calls |-> <<>>]
    ELSE IF up.account.err
    THEN [err |-> "Upstream", balance |-> NilBalance, bc |-> bc,
          calls |-> <<Call("ListFuturesAccounts")>>]
    ELSE BalanceFetched(BalanceOf(up.account))

\* A []map value: the nil slice, or a slice with its items.
NilPositions == [isNil |-> TRUE, items |-> <<>>]

\* append(result, posMap)
AppendPosition(result, posMap) ==
    [isNil |-> FALSE, items |-> Append(result.items, posMap)]

\* A multiplication by whatever the multiplier string parses to.
TimesParsed(contractSize, parsed) ==
    IF parsed.ok THEN RatMul(contractSize, parsed.val) ELSE contractSize

TimesIfPositive(contractSize, parsed) ==
    IF parsed.ok /\ RatPos(parsed.val) THEN RatMul(contractSize, parsed.val)
    ELSE contractSize

\* The coin quantity of a raw position: the contract count times the
\* multiplier, the contract count itself when no multiplier is to be had.
PositionCoinQuantity(r, contractSize) ==
    IF r.err = "" /\ r.info.QuantoMultiplier # <<>>
    THEN TimesIfPositive(contractSize, ParseFloat(r.info.QuantoMultiplier))
    ELSE contractSize

\* The map with the signed coin quantity for positionAmt.
PosMapSigned(pos, coinQuantity) ==
    [symbol |-> DenormalizeSymbolFromGateIO(pos.Contract),
     positionAmt |-> coinQuantity,
     side |-> IF pos.Size > 0 THEN "long" ELSE "short"]

\* The map built for one nonzero raw position (the price, profit and
\* leverage entries, which nothing in the adapter reads, are left out).
PosMap(pos, coinQuantity) ==
    [symbol |-> DenormalizeSymbolFromGateIO(pos.Contract),
     positionAmt |-> IF pos.Size > 0 THEN coinQuantity ELSE RatNeg(coinQuantity),
     side |-> IF pos.Size > 0 THEN "long" ELSE "short"]

\* The loop of GetPositions over the raw positions from index i on.
\* [result, sc, calls]
RECURSIVE PositionsLoop(_, _, _, _, _, _)
RECURSIVE PositionsStep(_, _, _, _, _, _)
PositionsLoop(positions, i, result, sc, calls, up) ==
    IF i > Len(positions) THEN [result |-> result, sc |-> sc, calls |-> calls]
    ELSE IF positions[i].Size = 0
    THEN PositionsLoop(positions, i + 1, result, sc, calls, up)
    ELSE PositionsStep(positions, i, result, calls, up,
                       getSymbolInfo(sc, DenormalizeSymbolFromGateIO(positions[i].Contract), up))

\* The step that leaves out a position whose symbol spec is not to be had.
PositionsStepDropping(positions, i, result, calls, up, r) ==
    IF r.err # ""
    THEN PositionsLoop(positions, i + 1, result, r.sc, calls \o r.calls, up)
    ELSE PositionsLoop(positions, i + 1,
                       AppendPosition(result,
                                      PosMap(positions[i],
                                             PositionCoinQuantity(r, RatInt(positions[i].Size)))),
                       r.sc, calls \o r.calls, up)

PositionsStep(positions, i, result, calls, up, r) ==
    PositionsLoop(positions, i + 1,
                  AppendPosition(result,
                                 PosMap(positions[i],
                                        PositionCoinQuantity(r, RatInt(positions[i].Size)))),
                  r.sc, calls \o r.calls, up)

PositionsFetched(loop) ==
    [err |-> "", positions |-> loop.result,
     pc |-> [value |-> loop.result, time |-> now],
     sc |-> loop.sc, calls |-> loop.calls]

\* The cached positions are there (not the nil slice) and younger than the
\* TTL.
PositionsFresh(pc) ==
    ~pc.value.isNil /\ now - pc.time < CacheDuration

\* [err, positions, pc, sc, calls]; pc is the cache state [value, time].
GetPositions(pc, sc, up) ==
    IF PositionsFresh(pc)
    THEN [err |-> "", positions |-> pc.value, pc |-> pc, sc |-> sc, calls |-> <<>>]
    ELSE IF up.positions.err
    THEN [err |-> "Upstream", positions |-> NilPositions, pc |-> pc, sc |-> sc,
          calls |-> <<Call("ListPositions")>>]
    ELSE PositionsFetched(PositionsLoop(up.positions.list, 1, NilPositions, sc,
                                        <<Call("ListPositions")>>, up))

----------------------------------------------------------------------------
(* Leverage, cancellation, the notional check.                             *)

\* A SetLeverage that reports every upstream error, "already" included.
SetLeverageStrict(symbol, leverage, up) ==
    IF leverage <= 0 THEN [err |-> "InvalidLeverage", calls |-> <<>>]
    ELSE [err |-> IF up.leverage \in {"ok", "unmarshal"} THEN "" ELSE "SetLeverage",
          calls |-> <<[Call("UpdatePositionLeverage") EXCEPT
                          !.contract = normalizeSymbolForGateIO(symbol),
                          !.arg = NatToDigits(leverage),
                          !.ok = (up.leverage = "ok")]>>]

\* [err, calls].  up.leverage is the outcome of UpdatePositionLeverage:
\* "ok", "unmarshal" (a 2xx response whose body does not unmarshal),
\* "already" (an error text saying the leverage is already set) or "fail".
SetLeverage(symbol, leverage, up) ==
    IF leverage <= 0 THEN [err |-> "InvalidLeverage", calls |-> <<>>]
    ELSE [err |-> IF up.leverage \in {"ok", "unmarshal", "already"} THEN ""
                  ELSE "SetLeverage",
          calls |-> <<[Call("UpdatePositionLeverage") EXCEPT
                          !.contract = normalizeSymbolForGateIO(symbol),
                          !.arg = NatToDigits(leverage),
                          !.ok = (up.leverage = "ok")]>>]

\* The loop that gives up at the first cancellation that fails.
RECURSIVE CancelTriggeredLoopStopping(_, _)
CancelTriggeredLoopStopping(priceOrders, i) ==
    IF i > Len(priceOrders) THEN <<>>
    ELSE IF priceOrders[i].Id > 0 /\ priceOrders[i].cancelErr
    THEN <<[Call("CancelPriceTriggeredOrder") EXCEPT
               !.arg = NatToDigits(priceOrders[i].Id), !.ok = FALSE]>>
    ELSE (IF priceOrders[i].Id > 0
          THEN <<[Call("CancelPriceTriggeredOrder") EXCEPT
                     !.arg = NatToDigits(priceOrders[i].Id)]>>
          ELSE <<>>)
         \o CancelTriggeredLoopStopping(priceOrders, i + 1)

\* The cancellations of the listed price-triggered orders from index i on.
RECURSIVE CancelTriggeredLoop(_, _)
CancelTriggeredLoop(priceOrders, i) ==
    IF i > Len(priceOrders) THEN <<>>
    ELSE (IF priceOrders[i].Id > 0
          THEN <<[Call("CancelPriceTriggeredOrder") EXCEPT
                     !.arg = NatToDigits(priceOrders[i].Id),
                     !.ok = ~priceOrders[i].cancelErr]>>
          ELSE <<>>)
         \o CancelTriggeredLoop(priceOrders, i + 1)

\* [err, calls]; err is always "".
CancelAllOrders(symbol, up) ==
    [err |-> "",
     calls |-> <<[Call("CancelFuturesOrders") EXCEPT
                     !.contract = normalizeSymbolForGateIO(symbol),
                     !.ok = ~up.cancel.bulkErr],
                 [Call("ListPriceTriggeredOrders") EXCEPT
                     !.contract = normalizeSymbolForGateIO(symbol),
                     !.ok = ~up.cancel.listErr]>>
               \o (IF up.cancel.listErr THEN <<>>
                   ELSE CancelTriggeredLoop(up.cancel.orders, 1))]

\* The side recorded for the symbol: that of the first position of the
\* symbol from index i on, "" when there is none.
RECURSIVE PositionSideOf(_, _, _)
PositionSideOf(items, i, symbol) ==
    IF i > Len(items) THEN ""
    ELSE IF items[i].symbol = symbol THEN items[i].side
    ELSE PositionSideOf(items, i + 1, symbol)

\* The guess from the sign of the order's size: an order against the position.
AgainstPosition(order, positionSide) ==
    \/ positionSide = "long" /\ order.size < 0
    \/ positionSide = "short" /\ order.size > 0

\* isStopLoss with <= and >= for < and >.
StopLossByTriggerInclusive(order, positionSide, currentPrice, parsed) ==
    IF parsed.ok /\ RatPos(currentPrice)
    THEN \/ positionSide = "long" /\ RatLe(parsed.val, currentPrice)
         \/ positionSide = "short" /\ RatLe(currentPrice, parsed.val)
    ELSE AgainstPosition(order, positionSide)

\* isStopLoss of an order whose trigger price is not empty.
StopLossByTrigger(order, positionSide, currentPrice, parsed) ==
    IF parsed.ok /\ RatPos(currentPrice)
    THEN \/ positionSide = "long" /\ RatLt(parsed.val, currentPrice)
         \/ positionSide = "short" /\ RatLt(currentPrice, parsed.val)
    ELSE AgainstPosition(order, positionSide)

\* isTakeProfit of an order whose trigger price is not empty.
TakeProfitByTrigger(order, positionSide, currentPrice, parsed) ==
    IF parsed.ok /\ RatPos(currentPrice)
    THEN \/ positionSide = "long" /\ RatLt(currentPrice, parsed.val)
         \/ positionSide = "short" /\ RatLt(parsed.val, currentPrice)
    ELSE AgainstPosition(order, positionSide)

\* The classification with the guess from the size applied to an empty
\* trigger price as well.
ClassifiedAlsoEmpty(kind, order, positionSide, currentPrice) ==
    IF kind = "StopLoss"
    THEN StopLossByTrigger(order, positionSide, currentPrice,
                           ParseFloat(order.triggerPrice))
    ELSE TakeProfitByTrigger(order, positionSide, currentPrice,
                             ParseFloat(order.triggerPrice))

\* isStopLoss (kind "StopLoss") or isTakeProfit (kind "TakeProfit").
Classified(kind, order, positionSide, currentPrice) ==
    IF order.triggerPrice = <<>> THEN FALSE
    ELSE IF kind = "StopLoss"
    THEN StopLossByTrigger(order, positionSide, currentPrice,
                           ParseFloat(order.triggerPrice))
    ELSE TakeProfitByTrigger(order, positionSide, currentPrice,
                             ParseFloat(order.triggerPrice))

\* The loop without the skip of the orders that cannot be judged.
RECURSIVE SelectiveCancelLoopUngated(_, _, _, _, _)
SelectiveCancelLoopUngated(kind, priceOrders, i, positionSide, currentPrice) ==
    IF i > Len(priceOrders) THEN <<>>
    ELSE (IF /\ Classified(kind, priceOrders[i], positionSide, currentPrice)
             /\ priceOrders[i].Id > 0
          THEN <<[Call("CancelPriceTriggeredOrder") EXCEPT
                     !.arg = NatToDigits(priceOrders[i].Id),
                     !.ok = ~priceOrders[i].cancelErr]>>
          ELSE <<>>)
         \o SelectiveCancelLoopUngated(kind, priceOrders, i + 1, positionSide,
                                       currentPrice)

\* The loop over the listed orders from index i on: the cancellations made.
RECURSIVE SelectiveCancelLoop(_, _, _, _, _)
SelectiveCancelLoop(kind, priceOrders, i, positionSide, currentPrice) ==
    IF i > Len(priceOrders) THEN <<>>
    ELSE (IF positionSide = "" \/ RatIsZero(currentPrice) THEN <<>>
          ELSE IF /\ Classified(kind, priceOrders[i], positionSide, currentPrice)
                  /\ priceOrders[i].Id > 0
          THEN <<[Call("CancelPriceTriggeredOrder") EXCEPT
                     !.arg = NatToDigits(priceOrders[i].Id),
                     !.ok = ~priceOrders[i].cancelErr]>>
          ELSE <<>>)
         \o SelectiveCancelLoop(kind, priceOrders, i + 1, positionSide, currentPrice)

\* The selective cancellation once the positions are in.
CancelWithPositions(kind, symbol, up, calls, currentPrice, gp) ==
    [err |-> "", pc |-> gp.pc, sc |-> gp.sc, positions |-> gp.positions,
     calls |-> calls \o gp.calls \o <<Step("GetPositions", gp.err = "")>>
               \o SelectiveCancelLoop(kind, up.cancel.orders, 1,
                                      PositionSideOf(gp.positions.items, 1, symbol),
                                      currentPrice)]

\* The selective cancellation once the price is in (0 when it is not to be
\* had).
CancelWithPrice(kind, pc, sc, symbol, up, price) ==
    IF up.cancel.listErr
    THEN [err |-> "ListOrders", pc |-> pc, sc |-> sc, positions |-> NilPositions,
          calls |-> price.calls
                    \o <<[Call("ListPriceTriggeredOrders") EXCEPT
                             !.contract = normalizeSymbolForGateIO(symbol),
                             !.ok = FALSE]>>]
    ELSE CancelWithPositions(kind, symbol, up,
                             price.calls
                             \o <<[Call("ListPriceTriggeredOrders") EXCEPT
                                      !.contract = normalizeSymbolForGateIO(symbol)]>>,
                             IF price.err # "" THEN RatInt(0) ELSE price.price,
                             GetPositions(pc, sc, up))

\* [err, pc, sc, positions, calls]; positions is the list the position side
\* was looked up in.
CancelStopLossOrders(pc, sc, symbol, up) ==
    CancelWithPrice("StopLoss", pc, sc, symbol, up, GetMarketPrice(symbol, up))

CancelTakeProfitOrders(pc, sc, symbol, up) ==
    CancelWithPrice("TakeProfit", pc, sc, symbol, up, GetMarketPrice(symbol, up))

\* CancelStopOrders once both cancellations have run.
CancelledBoth(r, s) ==
    [err |-> s.err, pc |-> s.pc, sc |-> s.sc, positions |-> s.positions,
     calls |-> r.calls \o <<Step("CancelStopLossOrders", TRUE)>> \o s.calls
               \o <<Step("CancelTakeProfitOrders", s.err = "")>>]

\* CancelStopOrders from the return of CancelStopLossOrders on.
CancelStopOrdersFrom(symbol, up, r) ==
    IF r.err # ""
    THEN [r EXCEPT !.calls = @ \o <<Step("CancelStopLossOrders", FALSE)>>]
    ELSE CancelledBoth(r, CancelTakeProfitOrders(r.pc, r.sc, symbol, up))

\* [err, pc, sc, positions, calls]
CancelStopOrders(pc, sc, symbol, up) ==
    CancelStopOrdersFrom(symbol, up, CancelStopLossOrders(pc, sc, symbol, up))

MinNotional == 10

GetMinNotional(symbol) == RatInt(MinNotional)

\* The notional check with <= for <.
NotionalOfPriceInclusive(symbol, quantity, p) ==
    IF p.err # "" THEN [err |-> "Price", calls |-> p.calls]
    ELSE IF RatLe(RatMul(quantity, p.price), GetMinNotional(symbol))
    THEN [err |-> "BelowMinimumNotional", calls |-> p.calls]
    ELSE [err |-> "", calls |-> p.calls]

\* CheckMinNotional from the return of GetMarketPrice on.
NotionalOfPrice(symbol, quantity, p) ==
    IF p.err # "" THEN [err |-> "Price", calls |-> p.calls]
    ELSE IF RatLt(RatMul(quantity, p.price), GetMinNotional(symbol))
    THEN [err |-> "BelowMinimumNotional", calls |-> p.calls]
    ELSE [err |-> "", calls |-> p.calls]

\* [err, calls]
CheckMinNotional(symbol, quantity, up) ==
    NotionalOfPrice(symbol, quantity, GetMarketPrice(symbol, up))

\* The amount GetMinOpenAmount returns when the symbol spec is not to be had.
DefaultMinOpenAmount == 12

\* minNotional * 1.1
WithMargin(minNotional) == RatMul(minNotional, Rat(11, 10))

\* The minimum notional left as it is when it is below the exchange's.
ExchangeMinimumIgnored(symbol, minNotional) == minNotional

\* The minimum notional raised to the exchange's when it is below it.
AtLeastExchangeMinimum(symbol, minNotional) ==
    IF RatLt(minNotional, GetMinNotional(symbol)) THEN GetMinNotional(symbol)
    ELSE minNotional

\* The smallest contract size GetMinOpenAmount reckons with: OrderSizeMin,
\* or one unit of the last decimal place when there is none.
MinContractQuantity(info) ==
    IF info.OrderSizeMin > 0 THEN RatInt(info.OrderSizeMin)
    ELSE Rat(1, Pow10(PrecisionOf(info)))

\* minCoinQuantity * price
SmallestNotional(info, price) ==
    RatMul(RatMul(MinContractQuantity(info), QuantoMultiplierOf(info)), price)

\* GetMinOpenAmount from the return of getSymbolInfo on.
MinOpenWithInfo(symbol, p, r) ==
    IF r.err # ""
    THEN [err |-> "", amount |-> RatInt(DefaultMinOpenAmount), resolved |-> FALSE,
          info |-> NoContract, sc |-> r.sc, calls |-> p.calls \o r.calls]
    ELSE [err |-> "", resolved |-> TRUE, info |-> r.info, sc |-> r.sc,
          calls |-> p.calls \o r.calls,
          amount |-> WithMargin(AtLeastExchangeMinimum(symbol,
                                    SmallestNotional(r.info, p.price)))]

\* GetMinOpenAmount from the return of GetMarketPrice on.
MinOpenWithPrice(sc, symbol, up, p) ==
    IF p.err # ""
    THEN [err |-> "Price", amount |-> RatInt(0), resolved |-> FALSE,
          info |-> NoContract, sc |-> sc, calls |-> p.calls]
    ELSE MinOpenWithInfo(symbol, p, getSymbolInfo(sc, symbol, up))

\* [err, amount, resolved, info, sc, calls]
GetMinOpenAmount(sc, symbol, up) ==
    MinOpenWithPrice(sc, symbol, up, GetMarketPrice(symbol, up))

----------------------------------------------------------------------------
(* Orders.                                                                 *)

\* The order with the close flag in the place of reduce-only.
MarketOrderClosing(gateIOSymbol, size, reduceOnly, up) ==
    [Call("CreateFuturesOrder") EXCEPT
        !.contract = gateIOSymbol, !.size = size, !.price = <<"0">>,
        !.close = reduceOnly, !.tif = "ioc", !.ok = ~up.orderErr]

\* The CreateFuturesOrder call of the four market operations.
MarketOrder(gateIOSymbol, size, reduceOnly, up) ==
    [Call("CreateFuturesOrder") EXCEPT
        !.contract = gateIOSymbol, !.size = size, !.price = <<"0">>,
        !.reduceOnly = reduceOnly, !.tif = "ioc", !.ok = ~up.orderErr]

\* The Size each operation puts on its order, from the parsed formatted
\* quantity.
OpenLongSize(contractSizeFloat) == Int64(contractSizeFloat)
OpenShortSize(contractSizeFloat) == Int64(RatNeg(contractSizeFloat))
CloseLongSize(contractSizeFloat) == -Abs(Int64(contractSizeFloat))
CloseShortSize(contractSizeFloat) == Abs(Int64(contractSizeFloat))

\* What an invocation records of its FormatQuantity call.
NoFq == [called |-> FALSE, quantity |-> RatInt(0), err |-> "", str |-> <<>>,
         resolved |-> FALSE, info |-> NoContract]

FqOut(fq, quantity) ==
    [called |-> TRUE, quantity |-> quantity, err |-> fq.err, str |-> fq.str,
     resolved |-> fq.resolved, info |-> fq.info]

Failed(api) == <<Step(api, FALSE)>>
Passed(api) == <<Step(api, TRUE)>>

\* The submission that places a rejected order a second time.
OpenSubmitRetrying(sc, calls, fqOut, order) ==
    [err |-> IF order.ok THEN "" ELSE "Order", sc |-> sc,
     calls |-> IF order.ok THEN Append(calls, order)
               ELSE Append(Append(calls, order), order),
     fq |-> fqOut]

\* OpenLong / OpenShort from the order submission on.
OpenSubmit(sc, calls, fqOut, order) ==
    [err |-> IF order.ok THEN "" ELSE "Order", sc |-> sc,
     calls |-> Append(calls, order), fq |-> fqOut]

\* ... from the minimum notional check on.
OpenChecked(side, symbol, up, sc, calls, fqOut, contractSizeFloat, notional) ==
    IF notional.err # ""
    THEN [err |-> notional.err, sc |-> sc,
          calls |-> calls \o notional.calls \o Failed("CheckMinNotional"),
          fq |-> fqOut]
    ELSE OpenSubmit(sc, calls \o notional.calls \o Passed("CheckMinNotional"), fqOut,
                    MarketOrder(normalizeSymbolForGateIO(symbol),
                                IF side = "long" THEN OpenLongSize(contractSizeFloat)
                                ELSE OpenShortSize(contractSizeFloat),
                                FALSE, up))

\* ... from the parse of the formatted quantity on.
OpenParsed(side, symbol, quantity, up, sc, calls, fqOut, parsed) ==
    IF ~parsed.ok
    THEN [err |-> "Parse", sc |-> sc, calls |-> calls, fq |-> fqOut]
    ELSE OpenChecked(side, symbol, up, sc, calls, fqOut, parsed.val,
                     CheckMinNotional(symbol, quantity, up))

\* ... from the return of FormatQuantity on.
OpenFormatted(side, symbol, quantity, up, calls, fq) ==
    IF fq.err # ""
    THEN [err |-> fq.err, sc |-> fq.sc,
          calls |-> calls \o fq.calls \o Failed("FormatQuantity"),
          fq |-> FqOut(fq, quantity)]
    ELSE OpenParsed(side, symbol, quantity, up, fq.sc,
                    calls \o fq.calls \o Passed("FormatQuantity"),
                    FqOut(fq, quantity), ParseFloat(fq.str))

\* ... from the return of SetLeverage on.
OpenLevered(side, sc, symbol, quantity, up, tieUp, calls, lev) ==
    IF lev.err # ""
    THEN [err |-> lev.err, sc |-> sc,
          calls |-> calls \o lev.calls \o Failed("SetLeverage"), fq |-> NoFq]
    ELSE OpenFormatted(side, symbol, quantity, up,
                       calls \o lev.calls \o Passed("SetLeverage"),
                       FormatQuantity(sc, symbol, quantity, up, tieUp))

\* An open that sets the leverage first and cancels the symbol's orders
\* only once the leverage is set.
OpenPositionLeverFirst(side, sc, symbol, quantity, leverage, up, tieUp) ==
    IF SetLeverage(symbol, leverage, up).err # ""
    THEN [err |-> SetLeverage(symbol, leverage, up).err, sc |-> sc,
          calls |-> SetLeverage(symbol, leverage, up).calls \o Failed("SetLeverage"),
          fq |-> NoFq]
    ELSE OpenFormatted(side, symbol, quantity, up,
                       SetLeverage(symbol, leverage, up).calls
                       \o Passed("SetLeverage")
                       \o CancelAllOrders(symbol, up).calls
                       \o Passed("CancelAllOrders"),
                       FormatQuantity(sc, symbol, quantity, up, tieUp))

\* OpenLong (side "long") and OpenShort (side "short"): [err, sc, calls, fq]
OpenPosition(side, sc, symbol, quantity, leverage, up, tieUp) ==
    OpenLevered(side, sc, symbol, quantity, up, tieUp,
                CancelAllOrders(symbol, up).calls
                \o <<Step("CancelAllOrders", CancelAllOrders(symbol, up).err = "")>>,
                SetLeverage(symbol, leverage, up))

\* The positionAmt of the first position of the symbol and side, 0 if none.
RECURSIVE PositionAmtOf(_, _, _, _)
PositionAmtOf(items, i, symbol, side) ==
    IF i > Len(items) THEN RatInt(0)
    ELSE IF items[i].symbol = symbol /\ items[i].side = side
    THEN items[i].positionAmt
    ELSE PositionAmtOf(items, i + 1, symbol, side)

\* A close that cancels the symbol's orders whether or not its own order
\* was accepted.
CloseSubmitCancelling(symbol, up, res, order) ==
    [res EXCEPT !.err = IF order.ok THEN @ ELSE "Order",
                !.calls = Append(@, order)
                            \o CancelAllOrders(symbol, up).calls
                            \o <<Step("CancelAllOrders",
                                      CancelAllOrders(symbol, up).err = "")>>]

\* CloseLong / CloseShort from the order submission on.
CloseSubmit(symbol, up, res, order) ==
    IF ~order.ok
    THEN [res EXCEPT !.err = "Order", !.calls = Append(@, order)]
    ELSE [res EXCEPT !.calls = Append(@, order)
                                 \o CancelAllOrders(symbol, up).calls
                                 \o <<Step("CancelAllOrders",
                                           CancelAllOrders(symbol, up).err = "")>>]

\* ... from the parse of the formatted quantity on.
CloseParsed(side, symbol, up, res, parsed) ==
    IF ~parsed.ok THEN [res EXCEPT !.err = "Parse"]
    ELSE CloseSubmit(symbol, up, res,
                     MarketOrder(normalizeSymbolForGateIO(symbol),
                                 IF side = "long" THEN CloseLongSize(parsed.val)
                                 ELSE CloseShortSize(parsed.val),
                                 TRUE, up))

\* ... from the return of FormatQuantity on.
CloseFormatted(side, symbol, quantity, up, res, fq) ==
    IF fq.err # ""
    THEN [res EXCEPT !.err = fq.err, !.sc = fq.sc,
                     !.calls = @ \o fq.calls \o Failed("FormatQuantity"),
                     !.fq = FqOut(fq, quantity)]
    ELSE CloseParsed(side, symbol, up,
                     [res EXCEPT !.sc = fq.sc,
                                 !.calls = @ \o fq.calls \o Passed("FormatQuantity"),
                                 !.fq = FqOut(fq, quantity)],
                     ParseFloat(fq.str))

\* ... with the quantity to close settled.
CloseQuantity(side, symbol, quantity, up, tieUp, res) ==
    CloseFormatted(side, symbol, quantity, up, res,
                   FormatQuantity(res.sc, symbol, quantity, up, tieUp))

\* The full close that submits a close-everything order of size 0 without
\* formatting the quantity.
CloseResolvedUnformatted(side, symbol, up, tieUp, res, amt) ==
    IF RatIsZero(amt) THEN [res EXCEPT !.err = "NoOpenPosition"]
    ELSE CloseSubmit(symbol, up, res,
                     [MarketOrder(normalizeSymbolForGateIO(symbol), 0, FALSE, up)
                         EXCEPT !.close = TRUE])

\* The full close once the position's quantity is looked up.
CloseResolved(side, symbol, up, tieUp, res, amt) ==
    IF RatIsZero(amt) THEN [res EXCEPT !.err = "NoOpenPosition"]
    ELSE CloseQuantity(side, symbol, amt, up, tieUp, res)

\* The full close as the conversion document has it: the order closes
\* everything, with size 0 and no conversion.
CloseAllAsDocumented(side, symbol, up, tieUp, gp) ==
    IF gp.err # ""
    THEN [err |-> gp.err, pc |-> gp.pc, sc |-> gp.sc,
          calls |-> gp.calls \o Failed("GetPositions"), fq |-> NoFq,
          positions |-> gp.positions]
    ELSE CloseResolvedUnformatted(side, symbol, up, tieUp,
                       [err |-> "", pc |-> gp.pc, sc |-> gp.sc,
                        calls |-> gp.calls \o Passed("GetPositions"), fq |-> NoFq,
                        positions |-> gp.positions],
                       PositionAmtOf(gp.positions.items, 1, symbol, side))

\* The full close from the return of GetPositions on.
CloseAll(side, symbol, up, tieUp, gp) ==
    IF gp.err # ""
    THEN [err |-> gp.err, pc |-> gp.pc, sc |-> gp.sc,
          calls |-> gp.calls \o Failed("GetPositions"), fq |-> NoFq,
          positions |-> gp.positions]
    ELSE CloseResolved(side, symbol, up, tieUp,
                       [err |-> "", pc |-> gp.pc, sc |-> gp.sc,
                        calls |-> gp.calls \o Passed("GetPositions"), fq |-> NoFq,
                        positions |-> gp.positions],
                       PositionAmtOf(gp.positions.items, 1, symbol, side))

\* CloseLong (side "long") and CloseShort (side "short"):
\* [err, pc, sc, calls, fq, positions]; positions is the list a full close
\* looked the position up in.
ClosePosition(side, pc, sc, symbol, quantity, up, tieUp) ==
    IF RatIsZero(quantity)
    THEN CloseAll(side, symbol, up, tieUp, GetPositions(pc, sc, up))
    ELSE CloseQuantity(side, symbol, quantity, up, tieUp,
                       [err |-> "", pc |-> pc, sc |-> sc, calls |-> <<>>,
                        fq |-> NoFq, positions |-> NilPositions])

\* The Size of a stop-loss / take-profit order.
StopOrderSize(positionSide, size) ==
    Int64(IF positionSide = "LONG" THEN RatNeg(size) ELSE size)

StopPricePrecision == 8

\* The CreatePriceTriggeredOrder call of SetStopLoss / SetTakeProfit.
TriggeredOrderCall(gateIOSymbol, sizeInt64, priceStr, up) ==
    [Call("CreatePriceTriggeredOrder") EXCEPT
        !.contract = gateIOSymbol, !.size = sizeInt64, !.price = priceStr,
        !.trigger = priceStr, !.tif = "gtc", !.ok = ~up.orderErr]

StopSubmit(sc, calls, fqOut, order) ==
    [err |-> IF order.ok THEN "" ELSE "Order", sc |-> sc,
     calls |-> Append(calls, order), fq |-> fqOut]

\* SetStopLoss / SetTakeProfit from the return of FormatQuantity on.
StopFormatted(symbol, positionSide, quantity, stopPrice, up, fq) ==
    IF fq.err # ""
    THEN [err |-> fq.err, sc |-> fq.sc,
          calls |-> fq.calls \o Failed("FormatQuantity"),
          fq |-> FqOut(fq, quantity)]
    ELSE StopSubmit(fq.sc, fq.calls \o Passed("FormatQuantity"), FqOut(fq, quantity),
                    TriggeredOrderCall(normalizeSymbolForGateIO(symbol),
                                       StopOrderSize(positionSide, ParseOrZero(fq.str)),
                                       SprintfF(StopPricePrecision, stopPrice, FALSE),
                                       up))

\* SetStopLoss and SetTakeProfit, which differ in their messages only:
\* [err, sc, calls, fq]
SetStopOrder(sc, symbol, positionSide, quantity, stopPrice, up, tieUp) ==
    StopFormatted(symbol, positionSide, quantity, stopPrice, up,
                  FormatQuantity(sc, symbol, quantity, up, tieUp))

----------------------------------------------------------------------------
(* The environment: callers' inputs and upstream responses.                *)

BTCUSDT == <<"B", "T", "C", "U", "S", "D", "T">>
ETHUSDT == <<"E", "T", "H", "U", "S", "D", "T">>
Symbols == {BTCUSDT, ETHUSDT}

Contract(name, multiplier, sizeMin, priceRound) ==
    [Name |-> name, QuantoMultiplier |-> multiplier, OrderSizeMin |-> sizeMin,
     OrderPriceRound |-> priceRound]

\* 0.01 coin a contract, at least 1 contract, increment 0.1
ContractBTC == Contract(normalizeSymbolForGateIO(BTCUSDT), <<"0", ".", "0", "1">>,
                        1, <<"0", ".", "1">>)
\* no multiplier, no minimum, increment 0.01
ContractETH == Contract(normalizeSymbolForGateIO(ETHUSDT), <<>>, 0,
                        <<"0", ".", "0", "1">>)

\* Coin quantities callers pass: 0 (close everything), 0.004, 0.5, 2.
Quantities == {RatInt(0), Rat(1, 250), Rat(1, 2), RatInt(2)}
Leverages == {0, 5}
StopPrices == {RatInt(90), Rat(221, 2)}
\* The sides the callers pass, and the side strings GetPositions reports.
PositionSides == {"LONG", "SHORT", "long", "short"}

ContractsResponses ==
    {[err |-> TRUE, list |-> <<>>],
     [err |-> FALSE, list |-> <<ContractBTC, ContractETH>>],
     [err |-> FALSE, list |-> <<ContractETH>>]}

\* The ticker query fails, finds nothing, or reports a last price.
TickerResponses ==
    {[err |-> TRUE, list |-> <<>>],
     [err |-> FALSE, list |-> <<>>],
     [err |-> FALSE, list |-> << <<"2", "0">> >>],
     [err |-> FALSE, list |-> << <<"2">> >>]}

RawPosition(contract, size) == [Contract |-> contract, Size |-> size]

PositionsResponses ==
    {[err |-> TRUE, list |-> <<>>],
     [err |-> FALSE, list |-> <<>>],
     [err |-> FALSE, list |-> <<RawPosition(ContractBTC.Name, 0)>>],
     [err |-> FALSE, list |-> <<RawPosition(ContractBTC.Name, 3)>>],
     [err |-> FALSE, list |-> <<RawPosition(ContractBTC.Name, -2),
                                RawPosition(ContractETH.Name, 1)>>]}

Account(total, available, pnl) ==
    [err |-> FALSE, Total |-> total, Available |-> available, UnrealisedPnl |-> pnl]

AccountResponses ==
    {[err |-> TRUE, Total |-> <<>>, Available |-> <<>>, UnrealisedPnl |-> <<>>],
     Account(<<"1", "0", "0">>, <<"8", "0", ".", "5">>, <<"-", "1">>),
     Account(<<"2", "5", "0">>, <<"2", "5", "0">>, <<>>)}

LeverageResponses == {"ok", "unmarshal", "already", "fail"}

TriggeredOrder(id, triggerPrice, size, cancelErr) ==
    [Id |-> id, triggerPrice |-> triggerPrice, size |-> size, cancelErr |-> cancelErr]

\* What the cancellation calls meet: nothing to cancel; two conditional
\* orders, the first of which cannot be cancelled, after a failed bulk
\* cancel; a failing listing.
CancelScenarios ==
    {[bulkErr |-> FALSE, listErr |-> FALSE, orders |-> <<>>],
     [bulkErr |-> TRUE, listErr |-> FALSE,
      orders |-> <<TriggeredOrder(7, <<"9", "0">>, -1, TRUE),
                   TriggeredOrder(8, <<"1", "1", "0">>, -1, FALSE)>>],
     [bulkErr |-> FALSE, listErr |-> TRUE, orders |-> <<>>]}

Upstream(contracts, tickers, positions, account, leverage, orderErr, cancel) ==
    [contracts |-> contracts, tickers |-> tickers, positions |-> positions,
     account |-> account, leverage |-> leverage, orderErr |-> orderErr,
     cancel |-> cancel]

\* Responses to queries an operation is known not to make.
AnyContracts == [err |-> TRUE, list |-> <<>>]
AnyTickers == [err |-> TRUE, list |-> <<>>]
AnyPositions == [err |-> TRUE, list |-> <<>>]
AnyAccount == [err |-> TRUE, Total |-> <<>>, Available |-> <<>>, UnrealisedPnl |-> <<>>]
AnyCancel == [bulkErr |-> FALSE, listErr |-> FALSE, orders |-> <<>>]
NoUpstream == Upstream(AnyContracts, AnyTickers, AnyPositions, AnyAccount, "ok",
                       FALSE, AnyCancel)

----------------------------------------------------------------------------
(* The state machine.                                                      *)

\* The zero time.Time of a cache never filled: older than every TTL.
ZeroTime == 0 - SymbolInfoTTL

\* No invocation on record.
Idle == [op |-> "", symbol |-> <<>>, quantity |-> RatInt(0), positionSide |-> "",
         leverage |-> 0, stopPrice |-> RatInt(0), up |-> NoUpstream, err |-> "",
         calls |-> <<>>, fq |-> NoFq, balance |-> NilBalance,
         positions |-> NilPositions, info |-> NoContract, text |-> <<>>,
         back |-> <<>>, contractSize |-> RatInt(0), coin |-> RatInt(0),
         amount |-> RatInt(0), resolved |-> FALSE]

\* The concurrent callers.
Goroutines == {1, 2}

\* A goroutine between two operations.  op is the operation it runs and pc
\* the place in it; inflight: its upstream call is on the wire; missed: it
\* found the cache of its operation empty or stale; fetches: the upstream
\* calls it made for that cache; balance, positions: its local result;
\* raw, i: the position list it loops over; symbol, list, info, found: the
\* locals of getSymbolInfo; nested: getSymbolInfo runs inside GetPositions;
\* stamp: the time it wrote with; err and the out fields: what it returned;
\* calls: the operations it has started so far; failed: its previous
\* operation, if that one returned the error of its upstream call; calledAt: the time the
\* operation was called (until the freshness test); readAt: the time its upstream
\* call returned (until the value is written); seenBalance, seenPositions,
\* old: the cached value a hit found under the read lock, and whether that
\* value was read from upstream the TTL or longer before the call.
NoGoroutine ==
    [op |-> "", pc |-> "idle", calls |-> 0, inflight |-> FALSE, missed |-> FALSE, fetches |-> 0,
     balance |-> NilBalance, positions |-> NilPositions, raw |-> <<>>, i |-> 1,
     symbol |-> <<>>, list |-> <<>>, info |-> NoContract, found |-> "",
     nested |-> FALSE, stamp |-> ZeroTime, err |-> "",
     outBalance |-> NilBalance, outPositions |-> NilPositions,
     calledAt |-> ZeroTime, readAt |-> ZeroTime, seenBalance |-> NilBalance,
     seenPositions |-> NilPositions, old |-> FALSE, failed |-> ""]

\* A sync.RWMutex nobody holds.  waiting: the goroutines inside Lock();
\* lastWriter: the goroutine that took the write lock last (0: nobody yet);
\* readAt: the time the value written under the lock last was read from
\* upstream.
NoLock == [readers |-> {}, writer |-> 0, waiting |-> {}, lastWriter |-> 0,
           readAt |-> ZeroTime]

Init ==
    /\ now = 0
    /\ cachedBalance = NilBalance
    /\ balanceCacheTime = ZeroTime
    /\ cachedPositions = NilPositions
    /\ positionsCacheTime = ZeroTime
    /\ symbolInfoCache = EmptyTable
    /\ symbolInfoCacheTime = ZeroTime
    /\ ticks = 0
    /\ last = Idle
    /\ goroutines = [g \in Goroutines |-> NoGoroutine]
    /\ locks = [balance |-> NoLock, positions |-> NoLock, symbol |-> NoLock]

BalanceCache == [value |-> cachedBalance, time |-> balanceCacheTime]
PositionsCache == [value |-> cachedPositions, time |-> positionsCacheTime]
SymbolCache == [cache |-> symbolInfoCache, time |-> symbolInfoCacheTime]

SetBalanceCache(bc) ==
    /\ cachedBalance' = bc.value
    /\ balanceCacheTime' = bc.time

SetPositionsCache(pc) ==
    /\ cachedPositions' = pc.value
    /\ positionsCacheTime' = pc.time

SetSymbolCache(sc) ==
    /\ symbolInfoCache' = sc.cache
    /\ symbolInfoCacheTime' = sc.time

\* The invocation on record has returned; the next one may start.
Return ==
    /\ last # Idle
    /\ last' = Idle
    /\ UNCHANGED <<now, cachedBalance, balanceCacheTime, cachedPositions,
                   positionsCacheTime, symbolInfoCache, symbolInfoCacheTime, ticks,
                   goroutines, locks>>

MaxAdvance == 2

\* d seconds pass between two invocations.
Advance(d) ==
    /\ last = Idle
    /\ ticks < MaxAdvance
    /\ now' = now + d
    /\ ticks' = ticks + 1
    /\ UNCHANGED <<cachedBalance, balanceCacheTime, cachedPositions,
                   positionsCacheTime, symbolInfoCache, symbolInfoCacheTime, last,
                   goroutines, locks>>

BalanceReturned(up, r) ==
    /\ SetBalanceCache(r.bc)
    /\ last' = [Idle EXCEPT !.op = "GetBalance", !.up = up, !.err = r.err,
                            !.calls = r.calls, !.balance = r.balance]
    /\ UNCHANGED <<now, cachedPositions, positionsCacheTime, symbolInfoCache,
                   symbolInfoCacheTime, ticks, goroutines, locks>>

DoGetBalance(up) ==
    /\ last = Idle
    /\ BalanceReturned(up, GetBalance(BalanceCache, up))

PositionsReturned(up, r) ==
    /\ SetPositionsCache(r.pc)
    /\ SetSymbolCache(r.sc)
    /\ last' = [Idle EXCEPT !.op = "GetPositions", !.up = up, !.err = r.err,
                            !.calls = r.calls, !.positions = r.positions]
    /\ UNCHANGED <<now, cachedBalance, balanceCacheTime, ticks, goroutines, locks>>

DoGetPositions(up) ==
    /\ last = Idle
    /\ PositionsReturned(up, GetPositions(PositionsCache, SymbolCache, up))

SymbolInfoReturned(symbol, up, r) ==
    /\ SetSymbolCache(r.sc)
    /\ last' = [Idle EXCEPT !.op = "getSymbolInfo", !.symbol = symbol, !.up = up,
                            !.err = r.err, !.calls = r.calls, !.info = r.info]
    /\ UNCHANGED <<now, cachedBalance, balanceCacheTime, cachedPositions,
                   positionsCacheTime, ticks, goroutines, locks>>

DoGetSymbolInfo(symbol, up) ==
    /\ last = Idle
    /\ SymbolInfoReturned(symbol, up, getSymbolInfo(SymbolCache, symbol, up))

CancelReturned(op, symbol, up, r) ==
    /\ SetPositionsCache(r.pc)
    /\ SetSymbolCache(r.sc)
    /\ last' = [Idle EXCEPT !.op = op, !.symbol = symbol, !.up = up, !.err = r.err,
                            !.calls = r.calls, !.positions = r.positions]
    /\ UNCHANGED <<now, cachedBalance, balanceCacheTime, ticks, goroutines, locks>>

DoCancelStopLossOrders(symbol, up) ==
    /\ last = Idle
    /\ CancelReturned("CancelStopLossOrders", symbol, up,
                      CancelStopLossOrders(PositionsCache, SymbolCache, symbol, up))

DoCancelTakeProfitOrders(symbol, up) ==
    /\ last = Idle
    /\ CancelReturned("CancelTakeProfitOrders", symbol, up,
                      CancelTakeProfitOrders(PositionsCache, SymbolCache, symbol, up))

DoCancelStopOrders(symbol, up) ==
    /\ last = Idle
    /\ CancelReturned("CancelStopOrders", symbol, up,
                      CancelStopOrders(PositionsCache, SymbolCache, symbol, up))

FormatReturned(symbol, quantity, up, fq) ==
    /\ SetSymbolCache(fq.sc)
    /\ last' = [Idle EXCEPT !.op = "FormatQuantity", !.symbol = symbol,
                            !.quantity = quantity, !.up = up, !.err = fq.err,
                            !.calls = fq.calls, !.fq = FqOut(fq, quantity)]
    /\ UNCHANGED <<now, cachedBalance, balanceCacheTime, cachedPositions,
                   positionsCacheTime, ticks, goroutines, locks>>

MinOpenReturned(symbol, up, r) ==
    /\ SetSymbolCache(r.sc)
    /\ last' = [Idle EXCEPT !.op = "GetMinOpenAmount", !.symbol = symbol, !.up = up,
                            !.err = r.err, !.calls = r.calls, !.info = r.info,
                            !.amount = r.amount, !.resolved = r.resolved]
    /\ UNCHANGED <<now, cachedBalance, balanceCacheTime, cachedPositions,
                   positionsCacheTime, ticks, goroutines, locks>>

DoFormatQuantity(symbol, quantity, up, tieUp) ==
    /\ last = Idle
    /\ FormatReturned(symbol, quantity, up,
                      FormatQuantity(SymbolCache, symbol, quantity, up, tieUp))

DoGetMinOpenAmount(symbol, up) ==
    /\ last = Idle
    /\ MinOpenReturned(symbol, up, GetMinOpenAmount(SymbolCache, symbol, up))

OpenReturned(op, symbol, quantity, leverage, up, r) ==
    /\ SetSymbolCache(r.sc)
    /\ last' = [Idle EXCEPT !.op = op, !.symbol = symbol, !.quantity = quantity,
                            !.leverage = leverage, !.up = up, !.err = r.err,
                            !.calls = r.calls, !.fq = r.fq]
    /\ UNCHANGED <<now, cachedBalance, balanceCacheTime, cachedPositions,
                   positionsCacheTime, ticks, goroutines, locks>>

OpenLong(symbol, quantity, leverage, up) ==
    /\ last = Idle
    /\ OpenReturned("OpenLong", symbol, quantity, leverage, up,
                    OpenPosition("long", SymbolCache, symbol, quantity, leverage,
                                 up, FALSE))

\* The open recorded on top of the record of GetMinOpenAmount.
OpenOfAmountReturned(quantity, leverage, r) ==
    /\ SetSymbolCache(r.sc)
    /\ last' = [last EXCEPT !.op = "OpenLong", !.quantity = quantity,
                            !.leverage = leverage, !.err = r.err,
                            !.calls = r.calls, !.fq = r.fq]
    /\ UNCHANGED <<now, cachedBalance, balanceCacheTime, cachedPositions,
                   positionsCacheTime, ticks, goroutines, locks>>

\* OpenLong of the quantity, for the symbol and with the upstream on record.
OpenLongOf(quantity, leverage, tieUp) ==
    OpenOfAmountReturned(quantity, leverage,
                         OpenPosition("long", SymbolCache, last.symbol, quantity,
                                      leverage, last.up, tieUp))

\* The caller of GetMinOpenAmount opens a long position of the amount it
\* got, at the price and with the upstream that call saw: the coin quantity
\* is the amount divided by the price.
OpenLongOfMinAmount(leverage, tieUp) ==
    /\ last.op = "GetMinOpenAmount"
    /\ last.err = ""
    /\ RatPos(GetMarketPrice(last.symbol, last.up).price)
    /\ OpenLongOf(RatDiv(last.amount, GetMarketPrice(last.symbol, last.up).price),
                  leverage, tieUp)

OpenShort(symbol, quantity, leverage, up) ==
    /\ last = Idle
    /\ OpenReturned("OpenShort", symbol, quantity, leverage, up,
                    OpenPosition("short", SymbolCache, symbol, quantity, leverage,
                                 up, FALSE))

CloseReturned(op, symbol, quantity, up, r) ==
    /\ SetPositionsCache(r.pc)
    /\ SetSymbolCache(r.sc)
    /\ last' = [Idle EXCEPT !.op = op, !.symbol = symbol, !.quantity = quantity,
                            !.up = up, !.err = r.err, !.calls = r.calls,
                            !.fq = r.fq, !.positions = r.positions]
    /\ UNCHANGED <<now, cachedBalance, balanceCacheTime, ticks, goroutines, locks>>

CloseLong(symbol, quantity, up) ==
    /\ last = Idle
    /\ CloseReturned("CloseLong", symbol, quantity, up,
                     ClosePosition("long", PositionsCache, SymbolCache, symbol,
                                   quantity, up, FALSE))

CloseShort(symbol, quantity, up) ==
    /\ last = Idle
    /\ CloseReturned("CloseShort", symbol, quantity, up,
                     ClosePosition("short", PositionsCache, SymbolCache, symbol,
                                   quantity, up, FALSE))

StopReturned(op, symbol, positionSide, quantity, stopPrice, up, r) ==
    /\ SetSymbolCache(r.sc)
    /\ last' = [Idle EXCEPT !.op = op, !.symbol = symbol, !.quantity = quantity,
                            !.positionSide = positionSide, !.stopPrice = stopPrice,
                            !.up = up, !.err = r.err, !.calls = r.calls, !.fq = r.fq]
    /\ UNCHANGED <<now, cachedBalance, balanceCacheTime, cachedPositions,
                   positionsCacheTime, ticks, goroutines, locks>>

SetStopLoss(symbol, positionSide, quantity, stopPrice, up) ==
    /\ last = Idle
    /\ StopReturned("SetStopLoss", symbol, positionSide, quantity, stopPrice, up,
                    SetStopOrder(SymbolCache, symbol, positionSide, quantity,
                                 stopPrice, up, FALSE))

SetTakeProfit(symbol, positionSide, quantity, takeProfitPrice, up) ==
    /\ last = Idle
    /\ StopReturned("SetTakeProfit", symbol, positionSide, quantity,
                    takeProfitPrice, up,
                    SetStopOrder(SymbolCache, symbol, positionSide, quantity,
                                 takeProfitPrice, up, FALSE))

----------------------------------------------------------------------------
(* The specification of the order operations.  The responses are drawn per *)
(* operation from the queries it can make: every combination of the        *)
(* responses that decide what is looked up and converted (contract list,   *)
(* price, position list), and the other outcomes (leverage, cancellation,  *)
(* a rejected order, a missing price in an error message) each against the *)
(* baseline.  None of the quantities drawn here rounds at a tie.           *)

FullContracts == [err |-> FALSE, list |-> <<ContractBTC, ContractETH>>]
Price20 == [err |-> FALSE, list |-> << <<"2", "0">> >>]

\* The baseline with the given leverage, order and cancellation outcomes.
Baseline(leverage, orderErr, cancel) ==
    Upstream(FullContracts, Price20, AnyPositions, AnyAccount, leverage, orderErr,
             cancel)

Variations ==
    {Baseline(l, FALSE, k) : l \in LeverageResponses, k \in CancelScenarios}
    \cup {Baseline("ok", TRUE, AnyCancel)}

OpenUpstreams(leverage) ==
    IF leverage <= 0
    THEN {Upstream(AnyContracts, AnyTickers, AnyPositions, AnyAccount, "ok", FALSE, k) :
            k \in CancelScenarios}
    ELSE {Upstream(c, t, AnyPositions, AnyAccount, "ok", FALSE, AnyCancel) :
            c \in ContractsResponses, t \in TickerResponses}
         \cup Variations

CloseUpstreams(quantity) ==
    {Upstream(c, Price20, p, AnyAccount, "ok", FALSE, AnyCancel) :
        c \in ContractsResponses,
        p \in (IF RatIsZero(quantity) THEN PositionsResponses ELSE {AnyPositions})}
    \cup {Baseline("ok", o, k) : o \in BOOLEAN, k \in CancelScenarios}
    \cup {Upstream(FullContracts, AnyTickers, AnyPositions, AnyAccount, "ok", FALSE,
                   AnyCancel)}

StopUpstreams ==
    {Upstream(c, Price20, AnyPositions, AnyAccount, "ok", FALSE, AnyCancel) :
        c \in ContractsResponses}
    \cup {Baseline("ok", TRUE, AnyCancel),
          Upstream(FullContracts, AnyTickers, AnyPositions, AnyAccount, "ok", FALSE,
                   AnyCancel)}

PositionsUpstreams ==
    {Upstream(c, AnyTickers, p, AnyAccount, "ok", FALSE, AnyCancel) :
        c \in ContractsResponses, p \in PositionsResponses}

\* The clock of this specification: 286 s pass, then 14 s, and so on, so
\* that invocations happen at 0, 286, 300, 586: a positions snapshot taken
\* at 286 is fresh at 300 while a symbol table loaded at 0 has expired.
ClockStep == IF ticks % 2 = 0 THEN SymbolInfoTTL - CacheDuration + 1
             ELSE CacheDuration - 1

Next ==
    \/ Return
    \/ Advance(ClockStep)
    \/ \E up \in PositionsUpstreams : DoGetPositions(up)
    \/ \E symbol \in Symbols, quantity \in Quantities, leverage \in Leverages :
         \E up \in OpenUpstreams(leverage) : OpenLong(symbol, quantity, leverage, up)
    \/ \E symbol \in Symbols, quantity \in Quantities, leverage \in Leverages :
         \E up \in OpenUpstreams(leverage) : OpenShort(symbol, quantity, leverage, up)
    \/ \E symbol \in Symbols, quantity \in Quantities :
         \E up \in CloseUpstreams(quantity) : CloseLong(symbol, quantity, up)
    \/ \E symbol \in Symbols, quantity \in Quantities :
         \E up \in CloseUpstreams(quantity) : CloseShort(symbol, quantity, up)
    \/ \E symbol \in Symbols, positionSide \in PositionSides,
          quantity \in Quantities, stopPrice \in StopPrices, up \in StopUpstreams :
         SetStopLoss(symbol, positionSide, quantity, stopPrice, up)
    \/ \E symbol \in Symbols, positionSide \in PositionSides,
          quantity \in Quantities, takeProfitPrice \in StopPrices, up \in StopUpstreams :
         SetTakeProfit(symbol, positionSide, quantity, takeProfitPrice, up)

Spec == Init /\ [][Next]_vars

----------------------------------------------------------------------------
(* The specification of the two TTL caches: GetBalance and GetPositions    *)
(* with a free clock, whose steps put two calls 1, 14, 15 or more seconds  *)
(* apart.                                                                  *)

CacheSteps == {1, CacheDuration - 1, CacheDuration}

BalanceUpstreams ==
    {Upstream(AnyContracts, AnyTickers, AnyPositions, a, "ok", FALSE, AnyCancel) :
        a \in AccountResponses}

NextCache ==
    \/ Return
    \/ \E d \in CacheSteps : Advance(d)
    \/ \E up \in BalanceUpstreams : DoGetBalance(up)
    \/ \E up \in PositionsUpstreams : DoGetPositions(up)

SpecCache == Init /\ [][NextCache]_vars

----------------------------------------------------------------------------
(* The specification of FormatQuantity: the symbol table is loaded by the  *)
(* first call, from a contract list whose entry for the symbol is any of   *)
(* the specs below, and serves the later ones.                             *)

\* quanto_multiplier: empty, 0.0001, 1, not a number, not positive.
Multipliers == {<<>>, <<"0", ".", "0", "0", "0", "1">>, <<"1">>, <<"x">>, <<"0">>}

SizeMins == {0, 1, 2}

\* order_price_round: absent, 0.01, 0.1, without a fractional part (1 and
\* 1.), and not a decimal number (1.0.0).
PriceRounds == {<<>>, <<"0", ".", "0", "1">>, <<"0", ".", "1">>, <<"1">>,
                <<"1", ".">>, <<"1", ".", "0", ".", "0">>}

\* Coin quantities: 0, 0.00005, 0.0001, 0.004, 0.005, 0.5, 1.5, 2.
FormatQuantities == {RatInt(0), Rat(1, 20000), Rat(1, 10000), Rat(1, 250),
                     Rat(1, 200), Rat(1, 2), Rat(3, 2), RatInt(2)}

FormatContracts ==
    {[err |-> TRUE, list |-> <<>>], [err |-> FALSE, list |-> <<ContractETH>>]}
    \cup {[err |-> FALSE,
           list |-> <<Contract(normalizeSymbolForGateIO(BTCUSDT), m, n, r)>>] :
            m \in Multipliers, n \in SizeMins, r \in PriceRounds}

\* The lookup is served from the table: no contract list is asked for.
Served(symbol) ==
    /\ normalizeSymbolForGateIO(symbol) \in DOMAIN symbolInfoCache
    /\ now - symbolInfoCacheTime < SymbolInfoTTL

FormatUpstreams(symbol) ==
    {Upstream(c, t, AnyPositions, AnyAccount, "ok", FALSE, AnyCancel) :
        c \in (IF Served(symbol) THEN {AnyContracts} ELSE FormatContracts),
        t \in {AnyTickers, Price20}}

NextFQ ==
    \/ Return
    \/ \E quantity \in FormatQuantities, tieUp \in BOOLEAN,
          up \in FormatUpstreams(BTCUSDT) :
         DoFormatQuantity(BTCUSDT, quantity, up, tieUp)

SpecFQ == Init /\ [][NextFQ]_vars

----------------------------------------------------------------------------
(* The specification of GetMinOpenAmount: a call for the symbol, at a last *)
(* price of 20 or 200000 or none, with any of the symbol specs above, and  *)
(* then the open of the amount it returned.                                *)

Price200000 == [err |-> FALSE, list |-> << <<"2", "0", "0", "0", "0", "0">> >>]

MinOpenUpstreams(symbol) ==
    {Upstream(c, t, AnyPositions, AnyAccount, "ok", FALSE, AnyCancel) :
        c \in (IF Served(symbol) THEN {AnyContracts} ELSE FormatContracts),
        t \in {AnyTickers, Price20, Price200000}}

NextMinOpen ==
    \/ Return
    \/ \E up \in MinOpenUpstreams(BTCUSDT) : DoGetMinOpenAmount(BTCUSDT, up)
    \/ \E tieUp \in BOOLEAN : OpenLongOfMinAmount(5, tieUp)

SpecMinOpen == Init /\ [][NextMinOpen]_vars

----------------------------------------------------------------------------
(* The specification of the symbol table: getSymbolInfo with a free clock, *)
(* whose steps put two lookups 1, 299, 300 or more seconds apart.          *)

SymbolSteps == {1, SymbolInfoTTL - 1, SymbolInfoTTL}

SymbolUpstreams ==
    {Upstream(c, AnyTickers, AnyPositions, AnyAccount, "ok", FALSE, AnyCancel) :
        c \in ContractsResponses}

NextSymbol ==
    \/ Return
    \/ \E d \in SymbolSteps : Advance(d)
    \/ \E symbol \in Symbols, up \in SymbolUpstreams : DoGetSymbolInfo(symbol, up)

SpecSymbol == Init /\ [][NextSymbol]_vars

----------------------------------------------------------------------------
(* The specification of the selective cancellations: CancelStopLossOrders  *)
(* and CancelTakeProfitOrders at a last price of 100 (or none, or 0), with *)
(* a long or a short position or none, over conditional orders triggering  *)
(* below, at and above that price or at no readable price.                 *)

Price100 == [err |-> FALSE, list |-> << <<"1", "0", "0">> >>]
Price0 == [err |-> FALSE, list |-> << <<"0">> >>]

\* The conditional orders on the book: sell orders triggering at 90, 110
\* and 100, one that cannot be cancelled, buy orders triggering at 90 and
\* 110, and orders of either direction whose trigger price is empty or not
\* a number.
SelectiveOrders ==
    <<TriggeredOrder(1, <<"9", "0">>, -1, FALSE),
      TriggeredOrder(2, <<"1", "1", "0">>, -1, TRUE),
      TriggeredOrder(3, <<"1", "0", "0">>, -1, FALSE),
      TriggeredOrder(4, <<"9", "0">>, 1, FALSE),
      TriggeredOrder(5, <<"1", "1", "0">>, 1, FALSE),
      TriggeredOrder(6, <<>>, -1, FALSE),
      TriggeredOrder(7, <<"x">>, -1, FALSE),
      TriggeredOrder(8, <<"x">>, 1, FALSE)>>

SelectiveScenarios ==
    {[bulkErr |-> FALSE, listErr |-> FALSE, orders |-> SelectiveOrders],
     [bulkErr |-> FALSE, listErr |-> FALSE, orders |-> <<>>],
     [bulkErr |-> FALSE, listErr |-> TRUE, orders |-> <<>>]}

SelectiveUpstreams ==
    {Upstream(FullContracts, t, p, AnyAccount, "ok", FALSE, k) :
        t \in {AnyTickers, Price0, Price100},
        p \in PositionsResponses,
        k \in SelectiveScenarios}

NextCancel ==
    \/ Return
    \/ Advance(CacheDuration)
    \/ \E symbol \in Symbols, up \in SelectiveUpstreams :
         DoCancelStopLossOrders(symbol, up)
    \/ \E symbol \in Symbols, up \in SelectiveUpstreams :
         DoCancelTakeProfitOrders(symbol, up)
    \/ \E symbol \in Symbols, up \in SelectiveUpstreams :
         DoCancelStopOrders(symbol, up)

SpecCancel == Init /\ [][NextCancel]_vars

----------------------------------------------------------------------------
(* The specification of the position list: GetPositions over contract      *)
(* lists whose BTC_USDT multiplier is 0.01, not a number or not positive,  *)
(* or that have no BTC_USDT entry, 15 s or 5 minutes apart.                *)

OddContracts ==
    {[err |-> FALSE,
      list |-> <<Contract(ContractBTC.Name, m, 1, <<"0", ".", "1">>), ContractETH>>] :
        m \in {<<"x">>, <<"0">>}}

ListUpstreams ==
    {Upstream(c, AnyTickers, p, AnyAccount, "ok", FALSE, AnyCancel) :
        c \in ContractsResponses \cup OddContracts, p \in PositionsResponses}

NextPositions ==
    \/ Return
    \/ \E d \in {CacheDuration, SymbolInfoTTL} : Advance(d)
    \/ \E up \in ListUpstreams : DoGetPositions(up)

SpecPositions == Init /\ [][NextPositions]_vars

----------------------------------------------------------------------------
(* Properties.  They are stated on the record of the last invocation: its  *)
(* inputs, the responses it got, its result and the calls it made.         *)

MarketOps == {"OpenLong", "OpenShort", "CloseLong", "CloseShort"}
OpenOps == {"OpenLong", "OpenShort"}
CloseOps == {"CloseLong", "CloseShort"}
StopOps == {"SetStopLoss", "SetTakeProfit"}

IsOrder(c) == c.api \in {"CreateFuturesOrder", "CreatePriceTriggeredOrder"}

\* The order-creating calls of the last invocation (indices into last.calls).
Orders == {i \in 1..Len(last.calls) : IsOrder(last.calls[i])}

StepAt(api, ok) == {i \in 1..Len(last.calls) : last.calls[i] = Step(api, ok)}

RatSub(x, y) == Rat(x.n * y.d - y.n * x.d, x.d * y.d)
RatAbs(x) == [n |-> Abs(x.n), d |-> x.d]

\* The number of digits after the dot in a decimal string.
FractionalDigits(str) ==
    IF Contains(str, ".") THEN Len(SplitDot(str)[2]) ELSE 0

\* C1: sign convention: every market order OpenLong submits has Size > 0,
\* every one OpenShort submits Size < 0, every one CloseLong submits
\* Size < 0 and every one CloseShort submits Size > 0.
C1_SignConvention ==
    \A i \in Orders :
        /\ last.op \in {"OpenLong", "CloseShort"} => last.calls[i].size > 0
        /\ last.op \in {"OpenShort", "CloseLong"} => last.calls[i].size < 0

ContractSizeOf(l) == RatDiv(l.quantity, QuantoMultiplierOf(l.fq.info))

FormatResolvedCase == last.op = "FormatQuantity" /\ last.fq.resolved

\* C3: minimum-size gate: when the symbol spec resolves, FormatQuantity
\* fails with the below-minimum-size error exactly when the converted
\* contract size is strictly below the symbol's minimum contract size (not
\* at equality), whatever the rounding would then give.
C3_MinimumSizeGate ==
    FormatResolvedCase =>
        (last.err = "BelowMinimumSize"
            <=> RatLt(ContractSizeOf(last), RatInt(last.fq.info.OrderSizeMin)))

\* Minimum 1, multiplier 0.0001 and coin quantity 0.0001: one contract, the
\* minimum itself, is accepted.
C3_Witness ==
    /\ FormatResolvedCase
    /\ last.fq.info.OrderSizeMin = 1
    /\ last.fq.info.QuantoMultiplier = <<"0", ".", "0", "0", "0", "1">>
    /\ last.quantity = Rat(1, 10000)
    /\ last.err = ""

\* Half a unit of the last of p fractional digits.
HalfUnit(p) == Rat(1, 2 * Pow10(p))

\* C4: precision floor: past the minimum-size gate FormatQuantity rounds
\* the contract size to the derived precision; it fails with the
\* zero-after-rounding error exactly when the rounded value is <= 0, and
\* otherwise returns the rounded value written with exactly that many
\* fractional digits.  (A contract size half way between two neighbours
\* rounds to either.)
C4_PrecisionFloor ==
    (FormatResolvedCase /\ last.err # "BelowMinimumSize") =>
        /\ last.err \in {"", "ZeroAfterRounding"}
        /\ last.err = "ZeroAfterRounding" =>
              RatLe(ContractSizeOf(last), HalfUnit(PrecisionOf(last.fq.info)))
        /\ RatLt(ContractSizeOf(last), HalfUnit(PrecisionOf(last.fq.info))) =>
              last.err = "ZeroAfterRounding"
        /\ last.err = "" =>
              /\ FractionalDigits(last.fq.str) = PrecisionOf(last.fq.info)
              /\ RatPos(ParseFloat(last.fq.str).val)
              /\ RatLe(RatAbs(RatSub(ParseFloat(last.fq.str).val, ContractSizeOf(last))),
                       HalfUnit(PrecisionOf(last.fq.info)))

\* Increment 0.01 and contract size 0.004: refused as zero after rounding.
C4_Witness ==
    /\ FormatResolvedCase
    /\ last.fq.info.OrderPriceRound = <<"0", ".", "0", "1">>
    /\ ContractSizeOf(last) = Rat(1, 250)
    /\ last.err = "ZeroAfterRounding"

\* C5: the precision FormatQuantity rounds to is the number of fractional
\* digits of the rounding increment, for every increment that is a decimal
\* number (none when it is written without a fractional part), and 3 only
\* when the increment is absent.
C5_PrecisionFromIncrement ==
    (FormatResolvedCase /\ last.err = "") =>
        /\ last.fq.info.OrderPriceRound = <<>> =>
              FractionalDigits(last.fq.str) = 3
        /\ (last.fq.info.OrderPriceRound # <<>>
              /\ ParseFloat(last.fq.info.OrderPriceRound).ok) =>
              FractionalDigits(last.fq.str)
                  = FractionalDigits(last.fq.info.OrderPriceRound)

\* The positions of the symbol and side in the list a full close looked
\* its position up in (indices into last.positions.items).
Recorded ==
    {i \in 1..Len(last.positions.items) :
        /\ last.positions.items[i].symbol = last.symbol
        /\ last.positions.items[i].side
              = (IF last.op = "CloseLong" THEN "long" ELSE "short")}

\* The coin quantity recorded for the position.
RecordedQuantity ==
    last.positions.items[CHOOSE i \in Recorded : \A j \in Recorded : i <= j].positionAmt

\* That quantity in contracts: divided by the multiplier of the symbol's
\* spec, and itself when FormatQuantity had no spec to convert with.
RecordedContracts ==
    IF last.fq.resolved
    THEN RatDiv(RecordedQuantity, QuantoMultiplierOf(last.fq.info))
    ELSE RecordedQuantity

FullCloseCase ==
    /\ last.op \in CloseOps
    /\ RatIsZero(last.quantity)
    /\ StepAt("GetPositions", TRUE) # {}

\* C6: full-close resolution: CloseLong / CloseShort called with quantity 0
\* fail with the no-open-position error and submit no order when no
\* position of that side is recorded for the symbol; otherwise the order
\* they submit is reduce-only and of exactly the recorded coin quantity
\* converted to contracts.
C6_FullCloseResolution ==
    FullCloseCase =>
        IF Recorded = {}
        THEN last.err = "NoOpenPosition" /\ Orders = {}
        ELSE /\ last.err # "NoOpenPosition"
             /\ last.fq.called /\ last.fq.quantity = RecordedQuantity
             /\ last.fq.err = "" => Orders # {}
             /\ \A i \in Orders :
                   /\ last.calls[i].reduceOnly
                   /\ RatInt(Abs(last.calls[i].size)) = RecordedContracts

PriceSeen == GetMarketPrice(last.symbol, last.up)

\* The open got as far as the minimum notional check.
NotionalChecked ==
    /\ last.op \in OpenOps
    /\ StepAt("FormatQuantity", TRUE) # {}

\* C8: minimum notional: OpenLong / OpenShort place no order when the
\* caller's coin quantity times the market price is below 10 or the price
\* cannot be fetched, and fail with the notional (or price) error once the
\* quantity has passed FormatQuantity; at 10 and above the check passes and
\* the order is submitted.  The check comes after the contract-size
\* minimum: it is not made when FormatQuantity fails.
C8_MinNotional ==
    last.op \in OpenOps =>
        /\ (PriceSeen.err # ""
              \/ RatLt(RatMul(last.quantity, PriceSeen.price), RatInt(MinNotional)))
              => Orders = {}
        /\ (NotionalChecked /\ PriceSeen.err # "") => last.err = "Price"
        /\ (NotionalChecked /\ PriceSeen.err = ""
              /\ RatLt(RatMul(last.quantity, PriceSeen.price), RatInt(MinNotional)))
              => last.err = "BelowMinimumNotional"
        /\ (NotionalChecked /\ PriceSeen.err = ""
              /\ ~RatLt(RatMul(last.quantity, PriceSeen.price), RatInt(MinNotional)))
              => (StepAt("CheckMinNotional", TRUE) # {} /\ Orders # {})
        /\ last.err \in {"BelowMinimumNotional", "Price"} =>
              (last.fq.called /\ last.fq.err = "")
        /\ (last.fq.called /\ last.fq.err # "") =>
              (StepAt("CheckMinNotional", TRUE) = {}
                 /\ StepAt("CheckMinNotional", FALSE) = {})

\* An open of exactly the minimum notional (0.5 coin at price 20) passes
\* the check and is submitted.
C8_Witness ==
    /\ last.op = "OpenShort"
    /\ PriceSeen.err = ""
    /\ RatMul(last.quantity, PriceSeen.price) = RatInt(MinNotional)
    /\ Orders # {}

\* A GetBalance / GetPositions call starts: the step from no invocation on
\* record to its record.
Calls(op) == last.op = "" /\ last'.op = op

\* A successful balance fetch is on record and younger than the TTL.
BalanceWithinTTL ==
    balanceCacheTime # ZeroTime /\ now - balanceCacheTime < CacheDuration

\* C9: cache staleness: a GetBalance call made less than 15 s after the
\* cached timestamp returns the cached value without an upstream fetch; any
\* other call makes exactly one upstream fetch and, when it succeeds,
\* returns and stores the fetched value with the time of the call.
C9_BalanceStaleness ==
    [][Calls("GetBalance") =>
         IF BalanceWithinTTL
         THEN /\ last'.calls = <<>>
              /\ last'.err = ""
              /\ last'.balance = cachedBalance
              /\ UNCHANGED <<cachedBalance, balanceCacheTime>>
         ELSE /\ Len(last'.calls) = 1
              /\ last'.calls[1].api = "ListFuturesAccounts"
              /\ last'.err = "" =>
                    /\ last'.balance = BalanceOf(last'.up.account)
                    /\ cachedBalance' = last'.balance
                    /\ balanceCacheTime' = now
              /\ last'.err # "" => UNCHANGED <<cachedBalance, balanceCacheTime>>]_vars

\* A call served from the cache 14 s after the fetch.
C9_Witness ==
    /\ last.op = "GetBalance"
    /\ last.calls = <<>>
    /\ ~last.balance.isNil
    /\ now - balanceCacheTime = CacheDuration - 1

\* A successful positions fetch is on record and younger than the TTL.
PositionsWithinTTL ==
    positionsCacheTime # ZeroTime /\ now - positionsCacheTime < CacheDuration

\* C10: GetPositions follows the same discipline: after a successful
\* upstream fetch every call within 15 s returns the cached list and makes
\* no upstream call, whatever list the fetch returned.
C10_PositionsStaleness ==
    [][(Calls("GetPositions") /\ PositionsWithinTTL) =>
          /\ last'.calls = <<>>
          /\ last'.err = ""
          /\ last'.positions = cachedPositions
          /\ UNCHANGED <<cachedPositions, positionsCacheTime>>]_vars

\* The calls of the last invocation that placed an order the exchange
\* accepted (indices into last.calls).
Accepted == {i \in Orders : last.calls[i].ok}

\* After call i the invocation asked the exchange again with the given query.
QueriedAfter(i, api) ==
    \E j \in (i + 1)..Len(last.calls) : last.calls[j].api = api

\* C11: after an open or close operation has placed its order, the cached
\* positions and balance are refreshed or invalidated: when the operation
\* returns, neither cache still serves the snapshot captured before the
\* order (so that the next GetPositions / GetBalance call and a following
\* full close do not use it).
C11_CacheInvalidation ==
    last.op \in MarketOps =>
        \A i \in Accepted :
            /\ QueriedAfter(i, "ListPositions") \/ ~PositionsFresh(PositionsCache)
            /\ QueriedAfter(i, "ListFuturesAccounts") \/ ~BalanceFresh(BalanceCache)

\* The symbol's spec is in the table and the table is younger than 5 minutes.
SymbolWithinTTL(gateIOSymbol) ==
    /\ gateIOSymbol \in DOMAIN symbolInfoCache
    /\ now - symbolInfoCacheTime < SymbolInfoTTL

\* The contract list as a set of specs by name.
Listed(contracts, name) ==
    {i \in 1..Len(contracts) : contracts[i].Name = name}

\* C12: a getSymbolInfo lookup of a symbol present in the cached table and
\* younger than 5 minutes makes no upstream call and returns the cached
\* spec; any other lookup makes exactly one contract-list call and, with its
\* result, replaces the whole table (exactly the listed symbols remain),
\* sets the table timestamp to the time of the call, and returns the
\* symbol's spec, or the symbol-not-found error when the symbol is not in
\* the refreshed table.
C12_SymbolInfoLookup ==
    [][Calls("getSymbolInfo") =>
         IF SymbolWithinTTL(normalizeSymbolForGateIO(last'.symbol))
         THEN /\ last'.calls = <<>>
              /\ last'.err = ""
              /\ last'.info = symbolInfoCache[normalizeSymbolForGateIO(last'.symbol)]
              /\ UNCHANGED <<symbolInfoCache, symbolInfoCacheTime>>
         ELSE /\ Len(last'.calls) = 1
              /\ last'.calls[1].api = "ListFuturesContracts"
              /\ ~last'.up.contracts.err =>
                    /\ DOMAIN symbolInfoCache'
                          = {c.Name : c \in {last'.up.contracts.list[i] :
                                  i \in 1..Len(last'.up.contracts.list)}}
                    /\ \A name \in DOMAIN symbolInfoCache' :
                          \E i \in Listed(last'.up.contracts.list, name) :
                              symbolInfoCache'[name] = last'.up.contracts.list[i]
                    /\ symbolInfoCacheTime' = now
                    /\ IF normalizeSymbolForGateIO(last'.symbol)
                              \in DOMAIN symbolInfoCache'
                       THEN /\ last'.err = ""
                            /\ last'.info
                                 = symbolInfoCache'[normalizeSymbolForGateIO(last'.symbol)]
                       ELSE last'.err = "SymbolNotFound"]_vars

\* A lookup 5 minutes or more after the start loaded a list of one symbol:
\* the table holds that symbol alone.
C12_Witness ==
    /\ last.op = "getSymbolInfo"
    /\ last.symbol = ETHUSDT
    /\ now >= SymbolInfoTTL
    /\ Len(last.calls) = 1
    /\ last.err = ""
    /\ symbolInfoCacheTime = now
    /\ DOMAIN symbolInfoCache = {ContractETH.Name}

SelectiveOps == {"CancelStopLossOrders", "CancelTakeProfitOrders"}

\* The selective cancellation on record got the list of conditional orders.
OrdersListed ==
    /\ last.op \in SelectiveOps
    /\ \E i \in 1..Len(last.calls) :
          last.calls[i].api = "ListPriceTriggeredOrders" /\ last.calls[i].ok

\* The positions of the symbol in the list the invocation looked the
\* position side up in (indices into last.positions.items).
OfSymbol ==
    {i \in 1..Len(last.positions.items) :
        last.positions.items[i].symbol = last.symbol}

\* The position side the invocation could determine, "" when none.
SideSeen ==
    IF OfSymbol = {} THEN ""
    ELSE last.positions.items[CHOOSE i \in OfSymbol : \A j \in OfSymbol : i <= j].side

\* The current price it could determine, 0 when none.
CurrentPrice == IF PriceSeen.err = "" THEN PriceSeen.price ELSE RatInt(0)

\* The conditional order was cancelled: a cancel call was made for its id.
Cancelled(order) ==
    \E i \in 1..Len(last.calls) :
        /\ last.calls[i].api = "CancelPriceTriggeredOrder"
        /\ last.calls[i].arg = NatToDigits(order.Id)

\* The trigger price of the order as a number, when it is one.
TriggerOf(order) == ParseFloat(order.triggerPrice)

ListedOrders == {last.up.cancel.orders[k] : k \in 1..Len(last.up.cancel.orders)}

\* C13: trigger classification: with a known position side and a current
\* price > 0, a conditional order with a parseable trigger price is
\* cancelled by CancelStopLossOrders iff its trigger is below the current
\* price for a long position or above it for a short one, and by
\* CancelTakeProfitOrders iff its trigger is above the current price for a
\* long position or below it for a short one.
C13_TriggerClassification ==
    (OrdersListed /\ SideSeen \in {"long", "short"} /\ RatPos(CurrentPrice)) =>
        \A order \in ListedOrders :
            TriggerOf(order).ok =>
                /\ last.op = "CancelStopLossOrders" =>
                      (Cancelled(order)
                          <=> IF SideSeen = "long"
                              THEN RatLt(TriggerOf(order).val, CurrentPrice)
                              ELSE RatLt(CurrentPrice, TriggerOf(order).val))
                /\ last.op = "CancelTakeProfitOrders" =>
                      (Cancelled(order)
                          <=> IF SideSeen = "long"
                              THEN RatLt(CurrentPrice, TriggerOf(order).val)
                              ELSE RatLt(TriggerOf(order).val, CurrentPrice))

\* Long at price 100: CancelStopLossOrders cancels the order triggering at 90
\* and leaves those triggering at 110 and at 100.
C13_Witness ==
    /\ last.op = "CancelStopLossOrders"
    /\ SideSeen = "long"
    /\ CurrentPrice = RatInt(100)
    /\ Cancelled(SelectiveOrders[1])
    /\ ~Cancelled(SelectiveOrders[2])
    /\ ~Cancelled(SelectiveOrders[3])
    /\ SelectiveOrders[1] \in ListedOrders

C15_UnparsedUnclassified ==
    OrdersListed =>
        \A order \in ListedOrders :
            ~TriggerOf(order).ok => ~Cancelled(order)

\* The cancel-all steps of the last invocation: the places of their bulk
\* cancel (indices into last.calls).
CancelAllAt ==
    {i \in 1..Len(last.calls) : last.calls[i].api = "CancelFuturesOrders"}

\* The place of the return of the cancel-all step that starts at i.
CancelAllEnd(i) ==
    IF last.calls[i + 1].ok THEN i + 2 + Len(last.up.cancel.orders) ELSE i + 2

\* C16: CancelAllOrders always reports success, whatever the bulk cancel, the
\* listing or an individual cancel returns: after the bulk cancel, failed
\* or not, the conditional orders are listed, and when the listing succeeds
\* each listed order gets its cancel call, in order, whether or not an
\* earlier cancel failed.  The cancel-all step never fails the parent
\* operation: an open goes on to set the leverage, and a close whose order
\* was accepted returns success.
C16_CancelAllSucceeds ==
    last.op \in MarketOps =>
        /\ StepAt("CancelAllOrders", FALSE) = {}
        /\ \A i \in CancelAllAt :
              /\ i + 1 <= Len(last.calls)
              /\ last.calls[i + 1].api = "ListPriceTriggeredOrders"
              /\ last.calls[i + 1].ok = ~last.up.cancel.listErr
              /\ CancelAllEnd(i) <= Len(last.calls)
              /\ last.calls[CancelAllEnd(i)] = Step("CancelAllOrders", TRUE)
              /\ last.calls[i + 1].ok =>
                    \A k \in 1..Len(last.up.cancel.orders) :
                        /\ last.calls[i + 1 + k].api = "CancelPriceTriggeredOrder"
                        /\ last.calls[i + 1 + k].arg
                              = NatToDigits(last.up.cancel.orders[k].Id)
                        /\ last.calls[i + 1 + k].ok
                              = ~last.up.cancel.orders[k].cancelErr
        /\ last.op \in OpenOps =>
              /\ CancelAllAt = {1}
              /\ StepAt("SetLeverage", TRUE) \cup StepAt("SetLeverage", FALSE) # {}
        /\ (last.op \in CloseOps /\ Accepted # {}) =>
              /\ last.err = ""
              /\ \E i \in CancelAllAt : \A j \in Accepted : j < i

\* A close whose order was accepted, followed by a cancel-all whose bulk
\* cancel fails and whose first individual cancel fails: the second order is
\* cancelled all the same and the close succeeds.
C16_Witness ==
    /\ last.op = "CloseLong"
    /\ Accepted # {}
    /\ last.up.cancel.bulkErr
    /\ Len(last.up.cancel.orders) = 2
    /\ last.up.cancel.orders[1].cancelErr
    /\ \E i \in 1..Len(last.calls) :
          /\ last.calls[i].api = "CancelPriceTriggeredOrder"
          /\ last.calls[i].arg = NatToDigits(last.up.cancel.orders[2].Id)
    /\ last.err = ""

\* C17: no retry of an order-placing call: one invocation of OpenLong,
\* OpenShort, CloseLong or CloseShort makes at most one CreateFuturesOrder
\* call, one of SetStopLoss or SetTakeProfit at most one
\* CreatePriceTriggeredOrder call, and neither makes a call of the other
\* kind; when the call fails the invocation returns the order error and
\* makes no further call.
C17_NoRetry ==
    last.op \in MarketOps \cup StopOps =>
        /\ Cardinality(Orders) <= 1
        /\ \A i \in Orders :
              /\ last.calls[i].api = (IF last.op \in MarketOps
                                      THEN "CreateFuturesOrder"
                                      ELSE "CreatePriceTriggeredOrder")
              /\ ~last.calls[i].ok => (last.err = "Order" /\ i = Len(last.calls))

\* An open whose order the exchange rejected.
C17_Witness ==
    /\ last.op = "OpenLong"
    /\ Cardinality(Orders) = 1
    /\ \A i \in Orders : ~last.calls[i].ok
    /\ last.err = "Order"

\* A price written with 8 fractional digits of which the last 6 are zeros,
\* without those zeros (<<>> when it is not of that form).
WithoutZeros(str) ==
    IF /\ Len(str) > 6
       /\ \A k \in (Len(str) - 5)..Len(str) : str[k] = "0"
    THEN SubSeq(str, 1, Len(str) - 6)
    ELSE <<>>

\* C18: once the quantity has passed FormatQuantity, SetStopLoss and
\* SetTakeProfit submit exactly one price-triggered order, whose initial
\* price and trigger price are the same, the given stop / take-profit price,
\* and whose size is negative for positionSide LONG and positive for SHORT;
\* they make no minimum notional check.
C18_StopOrder ==
    (last.op \in StopOps /\ StepAt("FormatQuantity", TRUE) # {}) =>
        /\ Cardinality(Orders) = 1
        /\ \A i \in Orders :
              /\ last.calls[i].api = "CreatePriceTriggeredOrder"
              /\ last.calls[i].price = last.calls[i].trigger
              /\ FractionalDigits(last.calls[i].price) = StopPricePrecision
              /\ ParseFloat(WithoutZeros(last.calls[i].price)).ok
              /\ ParseFloat(WithoutZeros(last.calls[i].price)).val = last.stopPrice
              /\ last.positionSide = "LONG" => last.calls[i].size < 0
              /\ last.positionSide = "SHORT" => last.calls[i].size > 0
        /\ StepAt("CheckMinNotional", TRUE) = {}
        /\ StepAt("CheckMinNotional", FALSE) = {}
        /\ \A i \in 1..Len(last.calls) : last.calls[i].api = "ListFuturesTickers" =>
              \E j \in Orders : j < i

IsOpen(pos) == pos.Size # 0

\* The raw positions of nonzero size in the exchange's answer to the
\* GetPositions call that starts, in order.
OpenRaw == SelectSeq(last'.up.positions.list, IsOpen)

\* The call makes the upstream position query.
PositionsQueried == last'.calls # <<>> /\ last'.calls[1].api = "ListPositions"

\* A spec with a multiplier to convert with: a positive number.
Usable(info) ==
    /\ info.QuantoMultiplier # <<>>
    /\ ParseFloat(info.QuantoMultiplier).ok
    /\ RatPos(ParseFloat(info.QuantoMultiplier).val)

\* The multipliers the call can resolve for a contract: that of the
\* contract's entry in the table while it is younger than 5 minutes, and
\* those of its entries in the contract list the exchange would return.
Multipliers0(name) ==
    {ParseFloat(symbolInfoCache[n].QuantoMultiplier).val :
        n \in {n \in DOMAIN symbolInfoCache :
                  /\ n = name
                  /\ now - symbolInfoCacheTime < SymbolInfoTTL
                  /\ Usable(symbolInfoCache[n])}}

Multipliers1(name) ==
    IF last'.up.contracts.err THEN {}
    ELSE {ParseFloat(last'.up.contracts.list[i].QuantoMultiplier).val :
            i \in {i \in Listed(last'.up.contracts.list, name) :
                      Usable(last'.up.contracts.list[i])}}

\* C19: GetPositions fails only when the upstream position query fails,
\* never because a symbol spec cannot be resolved or a multiplier cannot be
\* parsed: every raw position of nonzero size is in the list returned and
\* cached, and one for which no multiplier can be resolved has the raw
\* contract count as its coin quantity.
C19_PositionsNeverFailOnSpec ==
    [][Calls("GetPositions") =>
         /\ last'.err # "" <=> (PositionsQueried /\ last'.up.positions.err)
         /\ (PositionsQueried /\ ~last'.up.positions.err) =>
               /\ Len(last'.positions.items) = Len(OpenRaw)
               /\ cachedPositions' = last'.positions
               /\ \A k \in 1..Len(OpenRaw) :
                     /\ last'.positions.items[k].symbol
                           = DenormalizeSymbolFromGateIO(OpenRaw[k].Contract)
                     /\ Multipliers0(OpenRaw[k].Contract)
                           \cup Multipliers1(OpenRaw[k].Contract) = {} =>
                           last'.positions.items[k].positionAmt
                              = RatInt(Abs(OpenRaw[k].Size))]_vars

\* The contract query fails and the table is empty: the position of 3
\* contracts is returned and cached with quantity 3.
C19_Witness ==
    /\ last.op = "GetPositions"
    /\ last.err = ""
    /\ last.up.contracts.err
    /\ symbolInfoCache = EmptyTable
    /\ Len(last.positions.items) = 1
    /\ last.positions.items[1].positionAmt = RatInt(3)
    /\ cachedPositions = last.positions

\* The table serves every lookup of the call: it is younger than 5 minutes
\* and has an entry for every raw position of nonzero size.
TableServes ==
    /\ now - symbolInfoCacheTime < SymbolInfoTTL
    /\ \A k \in 1..Len(OpenRaw) : OpenRaw[k].Contract \in DOMAIN symbolInfoCache

\* No lookup of the call is served by the table: it has expired or is empty.
TableExpired ==
    \/ now - symbolInfoCacheTime >= SymbolInfoTTL
    \/ symbolInfoCache = EmptyTable

\* |size| x multiplier for each of the multipliers.
Scaled(size, multipliers) == {RatMul(RatInt(Abs(size)), m) : m \in multipliers}

\* C20: every position GetPositions returns has a positionAmt > 0; the list
\* it builds has one entry for each raw position of nonzero size and none
\* for those of size 0, with side long when the raw size is positive and
\* short when it is negative, the symbol in the spelling without separator,
\* and positionAmt = |raw size| x multiplier when the multiplier resolves to
\* a positive number.
C20_PositionEntries ==
    [][Calls("GetPositions") =>
         /\ \A k \in 1..Len(last'.positions.items) :
               /\ RatPos(last'.positions.items[k].positionAmt)
               /\ last'.positions.items[k].side \in {"long", "short"}
               /\ \A c \in 1..Len(last'.positions.items[k].symbol) :
                     last'.positions.items[k].symbol[c] # "_"
         /\ (PositionsQueried /\ ~last'.up.positions.err) =>
               /\ Len(last'.positions.items) = Len(OpenRaw)
               /\ \A k \in 1..Len(OpenRaw) :
                     /\ last'.positions.items[k].side = "long" <=> OpenRaw[k].Size > 0
                     /\ last'.positions.items[k].side = "short" <=> OpenRaw[k].Size < 0
                     /\ normalizeSymbolForGateIO(last'.positions.items[k].symbol)
                           = OpenRaw[k].Contract
                     /\ last'.positions.items[k].positionAmt
                           \in Scaled(OpenRaw[k].Size,
                                      Multipliers0(OpenRaw[k].Contract)
                                      \cup Multipliers1(OpenRaw[k].Contract)
                                      \cup {RatInt(1)})
                     /\ (TableServes /\ Multipliers0(OpenRaw[k].Contract) # {}) =>
                           last'.positions.items[k].positionAmt
                              \in Scaled(OpenRaw[k].Size,
                                         Multipliers0(OpenRaw[k].Contract))
                     /\ (TableExpired /\ Multipliers1(OpenRaw[k].Contract) # {}) =>
                           last'.positions.items[k].positionAmt
                              \in Scaled(OpenRaw[k].Size,
                                         Multipliers1(OpenRaw[k].Contract))]_vars

\* A short position of 2 contracts of 0.01 coin and a long one of 1 contract
\* without multiplier: 0.02 short and 1 long.
C20_Witness ==
    /\ last.op = "GetPositions"
    /\ last.calls # <<>>
    /\ Len(last.positions.items) = 2
    /\ last.positions.items[1]
          = [symbol |-> BTCUSDT, positionAmt |-> Rat(1, 50), side |-> "short"]
    /\ last.positions.items[2]
          = [symbol |-> ETHUSDT, positionAmt |-> RatInt(1), side |-> "long"]

----------------------------------------------------------------------------
\* The UpdatePositionLeverage calls of the last operation.
LeverageCalls == {i \in 1..Len(last.calls) : last.calls[i].api = "UpdatePositionLeverage"}

\* C22: SetLeverage with leverage <= 0 returns the invalid-leverage error
\* without any upstream call; with a positive leverage it makes exactly one
\* UpdatePositionLeverage call, a response saying the leverage is already at
\* the target (or a 2xx response, decodable or not) is a success, and any
\* other upstream failure is returned as the error.  OpenLong/OpenShort place
\* no order when SetLeverage returned an error.
C22_SetLeverage ==
    last.op \in OpenOps =>
        /\ last.leverage <= 0 =>
              /\ last.err = "InvalidLeverage"
              /\ LeverageCalls = {}
              /\ StepAt("SetLeverage", FALSE) # {}
        /\ last.leverage > 0 =>
              /\ Cardinality(LeverageCalls) = 1
              /\ last.up.leverage \in {"ok", "unmarshal", "already"}
                    => StepAt("SetLeverage", TRUE) # {}
              /\ last.up.leverage = "fail"
                    => last.err = "SetLeverage" /\ StepAt("SetLeverage", FALSE) # {}
        /\ StepAt("SetLeverage", FALSE) # {} => Orders = {} /\ last.err # ""

\* An open whose leverage was already at the target and whose order was placed.
C22_Witness ==
    /\ last.op = "OpenLong"
    /\ last.leverage > 0
    /\ last.up.leverage = "already"
    /\ last.err = ""
    /\ Orders # {}

----------------------------------------------------------------------------
FormatUnresolvedCase == last.op = "FormatQuantity" /\ ~last.fq.resolved

\* C23: when the symbol spec cannot be resolved, FormatQuantity succeeds and
\* returns the raw coin quantity written with exactly 3 decimals (the
\* quantity rounded to the nearest thousandth, a tie to either neighbour):
\* the value is not divided by a multiplier, no minimum-size error and no
\* zero-after-rounding error is returned, and no price is asked for.
C23_UnresolvedFormat ==
    FormatUnresolvedCase =>
        /\ last.err = ""
        /\ last.fq.err = ""
        /\ FractionalDigits(last.fq.str) = 3
        /\ RatLe(RatAbs(RatSub(ParseFloat(last.fq.str).val, last.quantity)),
                 HalfUnit(3))
        /\ \A i \in 1..Len(last.calls) : last.calls[i].api # "ListFuturesTickers"

\* The contract list cannot be fetched and the coin quantity 0.00005 comes
\* back as 0.000, which the resolved path would refuse.
C23_Witness ==
    /\ FormatUnresolvedCase
    /\ last.up.contracts.err
    /\ last.quantity = Rat(1, 20000)
    /\ last.fq.str = <<"0", ".", "0", "0", "0">>
    /\ last.err = ""

----------------------------------------------------------------------------
(* The symbol conversions on their own: normalizeSymbolForGateIO and        *)
(* DenormalizeSymbolFromGateIO applied to symbols of every shape.           *)

Bases == {<<>>, <<"B">>, <<"B", "T">>, <<"B", "T", "C">>,
          <<"1", "0", "0", "0", "X">>, <<"B", "_">>, <<"U", "S", "D", "T">>}

Tails == {<<>>, <<"U", "S", "D", "T">>, <<"U", "S", "D", "C">>,
          <<"B", "U", "S", "D">>, <<"T", "U", "S", "D">>, <<"D", "A", "I">>,
          <<"U", "S", "D">>, <<"_", "U", "S", "D", "T">>, <<"S", "D">>,
          <<"E", "U", "R">>, <<"U", "S", "D", "T", "_">>}

SymbolInputs == {b \o t : b \in Bases, t \in Tails}

ConversionReturned(l) ==
    /\ last' = l
    /\ UNCHANGED <<now, cachedBalance, balanceCacheTime, cachedPositions,
                   positionsCacheTime, symbolInfoCache, symbolInfoCacheTime, ticks,
                   goroutines, locks>>

DoNormalize(symbol) ==
    /\ last = Idle
    /\ ConversionReturned([Idle EXCEPT !.op = "normalizeSymbolForGateIO",
                                       !.symbol = symbol,
                                       !.text = normalizeSymbolForGateIO(symbol)])

DoDenormalize(symbol) ==
    /\ last = Idle
    /\ ConversionReturned([Idle EXCEPT !.op = "DenormalizeSymbolFromGateIO",
                                       !.symbol = symbol,
                                       !.text = DenormalizeSymbolFromGateIO(symbol)])

\* DenormalizeSymbolFromGateIO applied to what normalizeSymbolForGateIO returned.
DoDenormalizeNormalized ==
    /\ last.op = "normalizeSymbolForGateIO"
    /\ ConversionReturned([last EXCEPT !.op = "RoundTrip",
                                       !.back = DenormalizeSymbolFromGateIO(last.text)])

NextNormalize ==
    \/ Return
    \/ \E symbol \in SymbolInputs : DoNormalize(symbol)
    \/ \E symbol \in SymbolInputs : DoDenormalize(symbol)
    \/ DoDenormalizeNormalized

SpecNormalize == Init /\ [][NextNormalize]_vars

\* A canonical symbol: a string without the separator.
Canonical(symbol) == \A i \in 1..Len(symbol) : symbol[i] # "_"

\* C24: round trip: for every canonical symbol S (a string without the
\* separator) DenormalizeSymbolFromGateIO(normalizeSymbolForGateIO(S)) = S,
\* and DenormalizeSymbolFromGateIO applied to an already canonical symbol
\* returns it unchanged.
C24_RoundTrip ==
    /\ (last.op = "RoundTrip" /\ Canonical(last.symbol)) => last.back = last.symbol
    /\ (last.op = "DenormalizeSymbolFromGateIO" /\ Canonical(last.symbol))
          => last.text = last.symbol

\* BTCBUSD went to BTC_BUSD and came back.
C24_Witness ==
    /\ last.op = "RoundTrip"
    /\ last.symbol = <<"B", "T", "C", "B", "U", "S", "D">>
    /\ last.text = <<"B", "T", "C", "_", "B", "U", "S", "D">>
    /\ last.back = last.symbol

----------------------------------------------------------------------------
\* The known quote suffixes the symbol ends with.
QuotesOf(symbol) ==
    {q \in {Suffixes[i] : i \in 1..Len(Suffixes)} : HasSuffix(symbol, q)}

LongestQuote(symbol) ==
    CHOOSE q \in QuotesOf(symbol) : \A r \in QuotesOf(symbol) : Len(r) <= Len(q)

\* text is symbol with the separator inserted n characters from the end.
SeparatedAt(text, symbol, n) ==
    /\ Len(symbol) >= n
    /\ Len(text) = Len(symbol) + 1
    /\ \A i \in 1..Len(text) :
          text[i] = IF i <= Len(symbol) - n THEN symbol[i]
                    ELSE IF i = Len(symbol) - n + 1 THEN "_"
                    ELSE symbol[i - 1]

NormalizeCase == last.op = "normalizeSymbolForGateIO"

\* The two rules the statements below share: an input holding the separator
\* is returned unchanged; otherwise the longest known quote suffix the input
\* ends with is split off, the separator before it.
NormalizeKnown ==
    /\ ~Canonical(last.symbol) => last.text = last.symbol
    /\ (Canonical(last.symbol) /\ QuotesOf(last.symbol) # {})
          => SeparatedAt(last.text, last.symbol, Len(LongestQuote(last.symbol)))

\* C25 as stated: ...; if no known suffix matches, the separator is inserted
\* 4 characters from the end.
C25_NormalizeAsStated ==
    NormalizeCase =>
        /\ NormalizeKnown
        /\ (Canonical(last.symbol) /\ QuotesOf(last.symbol) = {})
              => SeparatedAt(last.text, last.symbol, 4)

\* C25: normalizeSymbolForGateIO returns an input that holds the separator
\* unchanged; otherwise it splits off the longest known quote suffix (USDT,
\* USDC, BUSD, TUSD, DAI, USD) the input ends with and puts the separator
\* before it; if no known suffix matches, an input longer than 4 characters
\* gets the separator 4 characters from its end and an input of at most 4
\* characters is returned unchanged.
C25_Normalize ==
    NormalizeCase =>
        /\ NormalizeKnown
        /\ (Canonical(last.symbol) /\ QuotesOf(last.symbol) = {}) =>
              IF Len(last.symbol) > 4 THEN SeparatedAt(last.text, last.symbol, 4)
              ELSE last.text = last.symbol

\* BTEUR ends with no known quote and is longer than 4: B_TEUR.
C25_Witness ==
    /\ NormalizeCase
    /\ last.symbol = <<"B", "T", "E", "U", "R">>
    /\ last.text = <<"B", "_", "T", "E", "U", "R">>

----------------------------------------------------------------------------
(* The two conversions on their own: a coin quantity converted to contracts *)
(* (convertCoinQuantityToContractSize) and the result converted back as     *)
(* the loop of GetPositions converts a contract count.                      *)

ConvertContracts ==
    {[err |-> TRUE, list |-> <<>>], [err |-> FALSE, list |-> <<ContractETH>>]}
    \cup {[err |-> FALSE,
           list |-> <<Contract(normalizeSymbolForGateIO(BTCUSDT), m, n, <<>>)>>] :
            m \in Multipliers, n \in {0, 1}}

ConvertUpstreams(symbol) ==
    {Upstream(c, AnyTickers, AnyPositions, AnyAccount, "ok", FALSE, AnyCancel) :
        c \in (IF Served(symbol) THEN {AnyContracts} ELSE ConvertContracts)}

ConvertReturned(symbol, coinQuantity, up, c) ==
    /\ SetSymbolCache(c.sc)
    /\ last' = [Idle EXCEPT !.op = "convertCoinQuantityToContractSize",
                            !.symbol = symbol, !.quantity = coinQuantity,
                            !.up = up, !.err = c.err, !.calls = c.calls,
                            !.contractSize = c.contractSize]
    /\ UNCHANGED <<now, cachedBalance, balanceCacheTime, cachedPositions,
                   positionsCacheTime, ticks, goroutines, locks>>

DoConvert(symbol, coinQuantity, up) ==
    /\ last = Idle
    /\ ConvertReturned(symbol, coinQuantity, up,
                       convertCoinQuantityToContractSize(SymbolCache, symbol,
                                                         coinQuantity, up))

ConvertedBack(r) ==
    /\ SetSymbolCache(r.sc)
    /\ last' = [last EXCEPT !.op = "ConvertBack", !.info = r.info,
                            !.calls = @ \o r.calls,
                            !.coin = PositionCoinQuantity(r, last.contractSize)]
    /\ UNCHANGED <<now, cachedBalance, balanceCacheTime, cachedPositions,
                   positionsCacheTime, ticks, goroutines, locks>>

\* The contract size on record converted back to a coin quantity.
DoConvertBack ==
    /\ last.op = "convertCoinQuantityToContractSize"
    /\ last.err = ""
    /\ ConvertedBack(getSymbolInfo(SymbolCache, last.symbol, last.up))

NextConvert ==
    \/ Return
    \/ \E coinQuantity \in FormatQuantities, up \in ConvertUpstreams(BTCUSDT) :
         DoConvert(BTCUSDT, coinQuantity, up)
    \/ DoConvertBack

SpecConvert == Init /\ [][NextConvert]_vars

\* The multiplier of a symbol spec: 1 when the multiplier string is empty,
\* unparseable or not positive.
MultiplierOf(info) ==
    IF Usable(info) THEN ParseFloat(info.QuantoMultiplier).val ELSE RatInt(1)

\* C26: conversion inverse: a positive coin quantity Q converted to contracts
\* is Q / M, and that result converted back to coin as GetPositions converts
\* is (Q / M) * M = Q, where in both directions M is the symbol's multiplier,
\* taken as 1 when the multiplier string is empty, unparseable or not
\* positive.  (Quantities are exact rationals here: the equality is the
\* algebraic one, before any float64 rounding.)
C26_ConversionInverse ==
    (last.op = "ConvertBack" /\ RatPos(last.quantity)) =>
        /\ last.contractSize = RatDiv(last.quantity, MultiplierOf(last.info))
        /\ last.coin = RatMul(last.contractSize, MultiplierOf(last.info))
        /\ last.coin = last.quantity

\* 0.5 coin at multiplier 0.0001 is 5000 contracts and 0.5 coin again.
C26_Witness ==
    /\ last.op = "ConvertBack"
    /\ last.info.QuantoMultiplier = <<"0", ".", "0", "0", "0", "1">>
    /\ last.quantity = Rat(1, 2)
    /\ last.contractSize = RatInt(5000)
    /\ last.coin = Rat(1, 2)

\* The multiplier string 0: both directions take 1.
C26_WitnessDefault ==
    /\ last.op = "ConvertBack"
    /\ last.info.QuantoMultiplier = <<"0">>
    /\ last.quantity = Rat(3, 2)
    /\ last.coin = Rat(3, 2)

----------------------------------------------------------------------------
\* The order was created after FormatQuantity returned success.
Formatted(i) == \E j \in StepAt("FormatQuantity", TRUE) : j < i

----------------------------------------------------------------------------
\* The calls of the last invocation that cancel, or list for cancelling.
Cancellations ==
    {i \in 1..Len(last.calls) :
        last.calls[i].api \in {"CancelFuturesOrders", "ListPriceTriggeredOrders",
                               "CancelPriceTriggeredOrder", "CancelAllOrders"}}

\* C29: CloseLong/CloseShort call CancelAllOrders only after their close
\* order was accepted by upstream: every cancellation call of a close comes
\* after its accepted order; a close that fails (no position found,
\* FormatQuantity failure, upstream rejection or any other error) makes no
\* cancellation call at all; and a close whose order was accepted runs the
\* cancel-all and returns success whatever the cancel-all calls return.
C29_CancelAfterClose ==
    last.op \in CloseOps =>
        /\ \A i \in Cancellations : \E j \in Accepted : j < i
        /\ last.err # "" => Cancellations = {}
        /\ Accepted # {} =>
              /\ last.err = ""
              /\ CancelAllAt # {}
              /\ StepAt("CancelAllOrders", TRUE) # {}

\* A close whose order upstream rejected while two conditional orders rest:
\* nothing is cancelled.
C29_Witness ==
    /\ last.op = "CloseShort"
    /\ last.err = "Order"
    /\ Orders # {}
    /\ Len(last.up.cancel.orders) = 2
    /\ Cancellations = {}

----------------------------------------------------------------------------
\* The steps of an open, in the order the operation takes them.
OpenOrder == <<"CancelAllOrders", "SetLeverage", "FormatQuantity",
               "CheckMinNotional", "CreateFuturesOrder">>

\* The steps the last invocation took: the returns of its internal steps and
\* its order call, in the order of last.calls.
StepsTaken ==
    SelectSeq(last.calls, LAMBDA c : c.api \in {OpenOrder[i] : i \in 1..Len(OpenOrder)})

\* C30: OpenLong/OpenShort take their steps in the fixed order cancel-all,
\* set leverage, FormatQuantity, minimum-notional check, order submission:
\* the cancel-all comes first and never stops the open, every later step is
\* taken only when the one before it passed, and the first failing step is
\* the last thing the operation does, its error the result.  When the
\* leverage setting or a validation step fails no order is placed, yet the
\* cancel-all calls have been made; when a validation step fails the
\* leverage call has been made too, and succeeded.
C30_OpenStepOrder ==
    last.op \in OpenOps =>
        /\ Len(StepsTaken) \in 2..Len(OpenOrder)
        /\ \A i \in 1..Len(StepsTaken) : StepsTaken[i].api = OpenOrder[i]
        /\ \A i \in 1..(Len(StepsTaken) - 1) : StepsTaken[i].ok
        /\ StepsTaken[Len(StepsTaken)].ok => Len(StepsTaken) = Len(OpenOrder)
        /\ StepsTaken[Len(StepsTaken)].ok <=> last.err = ""
        /\ last.calls[Len(last.calls)] = StepsTaken[Len(StepsTaken)]
        /\ last.calls[1].api = "CancelFuturesOrders"
        /\ last.calls[CancelAllEnd(1)] = Step("CancelAllOrders", TRUE)
        /\ \A i \in LeverageCalls : i = CancelAllEnd(1) + 1
        /\ Len(StepsTaken) < Len(OpenOrder) => Orders = {}
        /\ Len(StepsTaken) \in 3..4 =>
              /\ LeverageCalls # {}
              /\ StepAt("SetLeverage", TRUE) # {}

\* An open refused by FormatQuantity (below the minimum size): the two
\* conditional orders have had their cancel calls and the leverage is set,
\* but no order is placed.
C30_Witness ==
    /\ last.op = "OpenShort"
    /\ StepAt("FormatQuantity", FALSE) # {}
    /\ last.err = "BelowMinimumSize"
    /\ Len(last.up.cancel.orders) = 2
    /\ \E i \in 1..Len(last.calls) : last.calls[i].api = "CancelPriceTriggeredOrder"
    /\ \E i \in LeverageCalls : last.calls[i].ok
    /\ Orders = {}

----------------------------------------------------------------------------
(* Concurrent callers.  Each goroutine runs GetBalance, GetPositions or     *)
(* getSymbolInfo one statement group at a time; a step is what one          *)
(* goroutine does between two points where another one can run.  The three  *)
(* sync.RWMutex are modelled as Go implements them: RLock waits while a     *)
(* writer holds the lock or is inside Lock(), Lock waits for the readers    *)
(* and the writer to leave.                                                 *)

At(g, op, pc) == goroutines[g].op = op /\ goroutines[g].pc = pc

Go(g, r) == goroutines' = [goroutines EXCEPT ![g] = r]

KeepBalance == UNCHANGED <<cachedBalance, balanceCacheTime>>
KeepPositions == UNCHANGED <<cachedPositions, positionsCacheTime>>
KeepSymbols == UNCHANGED <<symbolInfoCache, symbolInfoCacheTime>>
KeepCaches == KeepBalance /\ KeepPositions /\ KeepSymbols
KeepClock == UNCHANGED <<now, ticks, last>>

\* RLock() returns: no writer holds the lock or is inside Lock().
CanRLock(m) == locks[m].writer = 0 /\ locks[m].waiting = {}

\* Lock() returns: the readers and the writer have left.
CanLock(m) == locks[m].readers = {} /\ locks[m].writer = 0

\* m.RLock()
RLock(m, g) ==
    /\ CanRLock(m)
    /\ locks' = [locks EXCEPT ![m].readers = @ \cup {g}]

\* m.RUnlock()
RUnlock(m, g) == locks' = [locks EXCEPT ![m].readers = @ \ {g}]

\* The read lock kept where the miss path releases it.
KeepOnMiss(m, g) == UNCHANGED locks

\* m.RUnlock() on the miss path, before the upstream call.
ReleaseOnMiss(m, g) == RUnlock(m, g)

\* m.Lock() is called: the goroutine waits for the lock from here on.
LockCalled(m, g) == locks' = [locks EXCEPT ![m].waiting = @ \cup {g}]

\* m.Lock() returns.
Lock(m, g) ==
    /\ g \in locks[m].waiting
    /\ CanLock(m)
    /\ locks' = [locks EXCEPT ![m].waiting = @ \ {g}, ![m].writer = g,
                              ![m].lastWriter = g]

\* m.Unlock(), after the write of the value goroutine g fetched.
Unlock(m, g) ==
    locks' = [locks EXCEPT ![m].writer = 0,
                           ![m].readAt = IF m = "symbol" THEN @
                                         ELSE goroutines[g].readAt]

\* The goroutines start at most MaxCalls operations between them.
MaxCalls == 2

RECURSIVE CallsOf(_)
CallsOf(gs) ==
    IF gs = {} THEN 0
    ELSE goroutines[CHOOSE g \in gs : TRUE].calls
            + CallsOf(gs \ {CHOOSE g \in gs : TRUE})

\* A goroutine starts an operation.
Start(g, op) ==
    /\ goroutines[g].pc = "idle"
    /\ CallsOf(Goroutines) < MaxCalls
    /\ Go(g, [NoGoroutine EXCEPT !.op = op, !.pc = "rlock", !.calledAt = now,
                                 !.calls = goroutines[g].calls + 1,
                                 !.failed = goroutines[g].failed])
    /\ UNCHANGED locks /\ KeepCaches /\ KeepClock

\* A goroutine whose operation returned is free for the next one.
Finish(g) ==
    /\ goroutines[g].pc = "done"
    /\ Go(g, [NoGoroutine EXCEPT
                 !.calls = goroutines[g].calls,
                 !.failed = IF goroutines[g].err = "Upstream" THEN goroutines[g].op
                            ELSE ""])
    /\ UNCHANGED locks /\ KeepCaches /\ KeepClock

(* GetBalance *)

\* t.balanceCacheMutex.RLock()
BalanceRLock(g) ==
    /\ At(g, "GetBalance", "rlock")
    /\ RLock("balance", g)
    /\ Go(g, [goroutines[g] EXCEPT !.pc = "check"])
    /\ KeepCaches /\ KeepClock

\* The freshness test under the read lock, and the RUnlock of either branch.
BalanceCheck(g) ==
    /\ At(g, "GetBalance", "check")
    /\ IF BalanceFresh(BalanceCache)
       THEN /\ RUnlock("balance", g)
            /\ Go(g, [goroutines[g] EXCEPT !.pc = "hit", !.calledAt = ZeroTime,
                                           !.seenBalance = cachedBalance,
                                           !.old = goroutines[g].calledAt - locks.balance.readAt
                                                       >= CacheDuration])
       ELSE /\ ReleaseOnMiss("balance", g)
            /\ Go(g, [goroutines[g] EXCEPT !.pc = "call", !.missed = TRUE,
                                           !.calledAt = ZeroTime])
    /\ KeepCaches /\ KeepClock

\* return t.cachedBalance, nil: the field is read after the RUnlock.
BalanceHit(g) ==
    /\ At(g, "GetBalance", "hit")
    /\ Go(g, [goroutines[g] EXCEPT !.pc = "done", !.outBalance = cachedBalance])
    /\ UNCHANGED locks /\ KeepCaches /\ KeepClock

\* ListFuturesAccounts goes out.
BalanceCall(g) ==
    /\ At(g, "GetBalance", "call")
    /\ Go(g, [goroutines[g] EXCEPT !.pc = "wait", !.inflight = TRUE,
                                   !.fetches = @ + 1])
    /\ UNCHANGED locks /\ KeepCaches /\ KeepClock

\* The expired snapshot returned in place of the error.
BalanceFailedServing(g) ==
    [goroutines[g] EXCEPT !.pc = "done", !.inflight = FALSE,
                          !.outBalance = cachedBalance]

\* return nil, fmt.Errorf(...): the error of ListFuturesAccounts is returned.
BalanceFailed(g) ==
    [goroutines[g] EXCEPT !.pc = "done", !.inflight = FALSE, !.err = "Upstream"]

\* ListFuturesAccounts comes back: the error is returned, or the result map
\* is built and Lock() called.
BalanceResponse(g, account) ==
    /\ At(g, "GetBalance", "wait")
    /\ IF account.err
       THEN /\ Go(g, BalanceFailed(g))
            /\ UNCHANGED locks
       ELSE /\ Go(g, [goroutines[g] EXCEPT !.pc = "lock", !.inflight = FALSE,
                                           !.readAt = now,
                                           !.balance = BalanceOf(account)])
            /\ LockCalled("balance", g)
    /\ KeepCaches /\ KeepClock

\* t.balanceCacheMutex.Lock() returns.
BalanceLock(g) ==
    /\ At(g, "GetBalance", "lock")
    /\ Lock("balance", g)
    /\ Go(g, [goroutines[g] EXCEPT !.pc = "write"])
    /\ KeepCaches /\ KeepClock

\* The value and the time are written, then Unlock().
BalanceWrite(g) ==
    /\ At(g, "GetBalance", "write")
    /\ cachedBalance' = goroutines[g].balance
    /\ balanceCacheTime' = now
    /\ Unlock("balance", g)
    /\ Go(g, [goroutines[g] EXCEPT !.pc = "return", !.stamp = now,
                                   !.readAt = ZeroTime])
    /\ KeepPositions /\ KeepSymbols /\ KeepClock

\* The value GetBalance returns after a fetch: the shared field, not the
\* local result.
BalanceReturnedShared(g) == cachedBalance

\* The value GetBalance returns after a fetch: return result, nil.
BalanceReturnedLocal(g) == goroutines[g].balance

BalanceReturn(g) ==
    /\ At(g, "GetBalance", "return")
    /\ Go(g, [goroutines[g] EXCEPT !.pc = "done",
                                   !.outBalance = BalanceReturnedLocal(g)])
    /\ UNCHANGED locks /\ KeepCaches /\ KeepClock

(* getSymbolInfo, called by a goroutine of its own or inside GetPositions *)

StartSymbolInfo(g, symbol) ==
    /\ goroutines[g].pc = "idle"
    /\ CallsOf(Goroutines) < MaxCalls
    /\ Go(g, [NoGoroutine EXCEPT !.op = "getSymbolInfo", !.pc = "s_rlock",
                                 !.calls = goroutines[g].calls + 1,
                                 !.failed = goroutines[g].failed,
                                 !.symbol = normalizeSymbolForGateIO(symbol)])
    /\ UNCHANGED locks /\ KeepCaches /\ KeepClock

\* t.symbolInfoMutex.RLock()
SymbolRLock(g) ==
    /\ goroutines[g].pc = "s_rlock"
    /\ RLock("symbol", g)
    /\ Go(g, [goroutines[g] EXCEPT !.pc = "s_check"])
    /\ KeepCaches /\ KeepClock

\* The lookup and the age test under the read lock, and the RUnlock of
\* either branch; a hit returns the entry it read here.
SymbolCheck(g) ==
    /\ goroutines[g].pc = "s_check"
    /\ IF /\ goroutines[g].symbol \in DOMAIN symbolInfoCache
          /\ now - symbolInfoCacheTime < SymbolInfoTTL
       THEN /\ RUnlock("symbol", g)
            /\ Go(g, [goroutines[g] EXCEPT
                         !.pc = "s_return", !.found = "",
                         !.info = symbolInfoCache[goroutines[g].symbol]])
       ELSE /\ ReleaseOnMiss("symbol", g)
            /\ Go(g, [goroutines[g] EXCEPT !.pc = "s_call"])
    /\ KeepCaches /\ KeepClock

\* ListFuturesContracts goes out.
SymbolCall(g) ==
    /\ goroutines[g].pc = "s_call"
    /\ Go(g, [goroutines[g] EXCEPT !.pc = "s_wait", !.inflight = TRUE])
    /\ UNCHANGED locks /\ KeepCaches /\ KeepClock

\* ListFuturesContracts comes back: the error is returned, or Lock() called.
SymbolResponse(g, contracts) ==
    /\ goroutines[g].pc = "s_wait"
    /\ IF contracts.err
       THEN /\ Go(g, [goroutines[g] EXCEPT !.pc = "s_return", !.inflight = FALSE,
                                           !.found = "Upstream"])
            /\ UNCHANGED locks
       ELSE /\ Go(g, [goroutines[g] EXCEPT !.pc = "s_lock", !.inflight = FALSE,
                                           !.list = contracts.list])
            /\ LockCalled("symbol", g)
    /\ KeepCaches /\ KeepClock

\* t.symbolInfoMutex.Lock() returns.
SymbolLock(g) ==
    /\ goroutines[g].pc = "s_lock"
    /\ Lock("symbol", g)
    /\ Go(g, [goroutines[g] EXCEPT !.pc = "s_make"])
    /\ KeepCaches /\ KeepClock

\* t.symbolInfoCache = make(map[string]*gateapi.Contract)
SymbolMake(g) ==
    /\ goroutines[g].pc = "s_make"
    /\ symbolInfoCache' = EmptyTable
    /\ UNCHANGED symbolInfoCacheTime
    /\ Go(g, [goroutines[g] EXCEPT !.pc = "s_fill"])
    /\ UNCHANGED locks /\ KeepBalance /\ KeepPositions /\ KeepClock

\* The loop that fills the map, the time stamp, Unlock().
SymbolFill(g) ==
    /\ goroutines[g].pc = "s_fill"
    /\ symbolInfoCache' = TableOf(goroutines[g].list)
    /\ symbolInfoCacheTime' = now
    /\ Unlock("symbol", g)
    /\ Go(g, [goroutines[g] EXCEPT !.pc = "s_lookup"])
    /\ KeepBalance /\ KeepPositions /\ KeepClock

\* Another goroutine has replaced the map and is in the loop that fills it.
Rebuilding(g) == \E h \in Goroutines \ {g} : goroutines[h].pc = "s_fill"

\* What the lookup can find for the name: the entry of the table as it
\* stands; and, while another goroutine fills the map it has just made, the
\* entry that goroutine is about to insert or has inserted (the read races
\* with the loop).
EntriesSeen(g, name) ==
    (IF name \in DOMAIN symbolInfoCache
     THEN {[found |-> "", info |-> symbolInfoCache[name]]}
     ELSE {[found |-> "SymbolNotFound", info |-> NoContract]})
    \cup {[found |-> "", info |-> TableOf(goroutines[h].list)[name]] :
            h \in {h \in Goroutines \ {g} :
                      /\ goroutines[h].pc = "s_fill"
                      /\ name \in DOMAIN TableOf(goroutines[h].list)}}

\* The lookup after the refresh: t.symbolInfoCache is read without the lock.
\* A read that meets a write of the same map can also stop the program
\* (fatal error: concurrent map read and map write).
SymbolLookupStep(g) ==
    /\ goroutines[g].pc = "s_lookup"
    /\ \/ \E seen \in EntriesSeen(g, goroutines[g].symbol) :
             Go(g, [goroutines[g] EXCEPT !.pc = "s_return", !.found = seen.found,
                                         !.info = IF seen.found = "" THEN seen.info
                                                  ELSE @])
       \/ /\ Rebuilding(g)
          /\ Go(g, [goroutines[g] EXCEPT !.pc = "done",
                                         !.err = "ConcurrentMapAccess"])
    /\ UNCHANGED locks /\ KeepCaches /\ KeepClock

\* getSymbolInfo returns, to its caller inside GetPositions or for good.
SymbolReturn(g) ==
    /\ goroutines[g].pc = "s_return"
    /\ IF goroutines[g].nested
       THEN Go(g, [goroutines[g] EXCEPT !.pc = "append"])
       ELSE Go(g, [goroutines[g] EXCEPT !.pc = "done", !.err = goroutines[g].found])
    /\ UNCHANGED locks /\ KeepCaches /\ KeepClock

(* GetPositions *)

\* t.positionsCacheMutex.RLock()
PositionsRLock(g) ==
    /\ At(g, "GetPositions", "rlock")
    /\ RLock("positions", g)
    /\ Go(g, [goroutines[g] EXCEPT !.pc = "check"])
    /\ KeepCaches /\ KeepClock

\* The freshness test under the read lock, and the RUnlock of either branch.
PositionsCheck(g) ==
    /\ At(g, "GetPositions", "check")
    /\ IF PositionsFresh(PositionsCache)
       THEN /\ RUnlock("positions", g)
            /\ Go(g, [goroutines[g] EXCEPT !.pc = "hit", !.calledAt = ZeroTime,
                                           !.seenPositions = cachedPositions,
                                           !.old = goroutines[g].calledAt - locks.positions.readAt
                                                       >= CacheDuration])
       ELSE /\ ReleaseOnMiss("positions", g)
            /\ Go(g, [goroutines[g] EXCEPT !.pc = "call", !.missed = TRUE,
                                           !.calledAt = ZeroTime])
    /\ KeepCaches /\ KeepClock

\* return t.cachedPositions, nil: the field is read after the RUnlock.
PositionsHit(g) ==
    /\ At(g, "GetPositions", "hit")
    /\ Go(g, [goroutines[g] EXCEPT !.pc = "done", !.outPositions = cachedPositions])
    /\ UNCHANGED locks /\ KeepCaches /\ KeepClock

\* ListPositions goes out.
PositionsCall(g) ==
    /\ At(g, "GetPositions", "call")
    /\ Go(g, [goroutines[g] EXCEPT !.pc = "wait", !.inflight = TRUE,
                                   !.fetches = @ + 1])
    /\ UNCHANGED locks /\ KeepCaches /\ KeepClock

\* ListPositions comes back: the error is returned, or the loop starts.
PositionsResponse(g, positions) ==
    /\ At(g, "GetPositions", "wait")
    /\ IF positions.err
       THEN Go(g, [goroutines[g] EXCEPT !.pc = "done", !.inflight = FALSE,
                                        !.err = "Upstream"])
       ELSE Go(g, [goroutines[g] EXCEPT !.pc = "loop", !.inflight = FALSE,
                                        !.readAt = now,
                                        !.raw = positions.list, !.i = 1])
    /\ UNCHANGED locks /\ KeepCaches /\ KeepClock

\* The head of the loop: past the last position Lock() is called; a position
\* of size 0 is skipped; for any other getSymbolInfo is called.
PositionsNext(g) ==
    /\ At(g, "GetPositions", "loop")
    /\ IF goroutines[g].i > Len(goroutines[g].raw)
       THEN /\ Go(g, [goroutines[g] EXCEPT !.pc = "lock"])
            /\ LockCalled("positions", g)
       ELSE /\ IF goroutines[g].raw[goroutines[g].i].Size = 0
               THEN Go(g, [goroutines[g] EXCEPT !.i = @ + 1])
               ELSE Go(g, [goroutines[g] EXCEPT
                              !.pc = "s_rlock", !.nested = TRUE,
                              !.symbol = normalizeSymbolForGateIO(
                                  DenormalizeSymbolFromGateIO(
                                      goroutines[g].raw[goroutines[g].i].Contract))])
            /\ UNCHANGED locks
    /\ KeepCaches /\ KeepClock

\* The rest of the loop body: the position is appended to the result.
PositionsAppend(g) ==
    /\ At(g, "GetPositions", "append")
    /\ Go(g, [goroutines[g] EXCEPT
                 !.pc = "loop", !.i = @ + 1,
                 !.positions =
                     AppendPosition(@, PosMap(goroutines[g].raw[goroutines[g].i],
                         PositionCoinQuantity(
                             [err |-> goroutines[g].found, info |-> goroutines[g].info],
                             RatInt(goroutines[g].raw[goroutines[g].i].Size))))])
    /\ UNCHANGED locks /\ KeepCaches /\ KeepClock

\* t.positionsCacheMutex.Lock() returns.
PositionsLock(g) ==
    /\ At(g, "GetPositions", "lock")
    /\ Lock("positions", g)
    /\ Go(g, [goroutines[g] EXCEPT !.pc = "write"])
    /\ KeepCaches /\ KeepClock

\* The value and the time are written, then Unlock().
PositionsWrite(g) ==
    /\ At(g, "GetPositions", "write")
    /\ cachedPositions' = goroutines[g].positions
    /\ positionsCacheTime' = now
    /\ Unlock("positions", g)
    /\ Go(g, [goroutines[g] EXCEPT !.pc = "return", !.stamp = now,
                                   !.readAt = ZeroTime])
    /\ KeepBalance /\ KeepSymbols /\ KeepClock

\* return result, nil
PositionsReturn(g) ==
    /\ At(g, "GetPositions", "return")
    /\ Go(g, [goroutines[g] EXCEPT !.pc = "done",
                                   !.outPositions = goroutines[g].positions])
    /\ UNCHANGED locks /\ KeepCaches /\ KeepClock

(* The specification of the concurrent callers *)

ConcurrentPositions ==
    {[err |-> TRUE, list |-> <<>>],
     [err |-> FALSE, list |-> <<RawPosition(ContractETH.Name, 0),
                                RawPosition(ContractBTC.Name, 3)>>]}

ConcurrentContracts == {[err |-> TRUE, list |-> <<>>], FullContracts}

\* One step of goroutine g.
GoroutineStep(g) ==
    \/ Start(g, "GetBalance")
    \/ BalanceRLock(g)
    \/ BalanceCheck(g)
    \/ BalanceHit(g)
    \/ BalanceCall(g)
    \/ \E account \in AccountResponses : BalanceResponse(g, account)
    \/ BalanceLock(g)
    \/ BalanceWrite(g)
    \/ BalanceReturn(g)
    \/ Start(g, "GetPositions")
    \/ PositionsRLock(g)
    \/ PositionsCheck(g)
    \/ PositionsHit(g)
    \/ PositionsCall(g)
    \/ \E positions \in ConcurrentPositions : PositionsResponse(g, positions)
    \/ PositionsNext(g)
    \/ PositionsAppend(g)
    \/ PositionsLock(g)
    \/ PositionsWrite(g)
    \/ PositionsReturn(g)
    \/ StartSymbolInfo(g, BTCUSDT)
    \/ SymbolRLock(g)
    \/ SymbolCheck(g)
    \/ SymbolCall(g)
    \/ \E contracts \in ConcurrentContracts : SymbolResponse(g, contracts)
    \/ SymbolLock(g)
    \/ SymbolMake(g)
    \/ SymbolFill(g)
    \/ SymbolLookupStep(g)
    \/ SymbolReturn(g)
    \/ Finish(g)

\* The clock moves on while the goroutines run: by a second, then by a
\* second less than the TTL.
ConcurrentSteps == <<1, CacheDuration - 1>>

\* Time passes between two steps of the goroutines.
Pass ==
    /\ ticks < Len(ConcurrentSteps)
    /\ now' = now + ConcurrentSteps[ticks + 1]
    /\ ticks' = ticks + 1
    /\ UNCHANGED <<last, goroutines, locks>>
    /\ KeepCaches

NextConcurrent ==
    \/ Pass
    \/ \E g \in Goroutines : GoroutineStep(g)

SpecConcurrent == Init /\ [][NextConcurrent]_vars

\* The trader after one GetBalance and one GetPositions at time 0, the
\* second with the symbol spec unavailable: both snapshots are cached.
WarmBalance ==
    BalanceOf(Account(<<"1", "0", "0">>, <<"8", "0", ".", "5">>, <<"-", "1">>))

WarmPositions ==
    AppendPosition(NilPositions,
        PosMap(RawPosition(ContractBTC.Name, 3),
               PositionCoinQuantity([err |-> "Upstream", info |-> NoContract],
                                    RatInt(3))))

InitWarm ==
    /\ now = 0
    /\ cachedBalance = WarmBalance
    /\ balanceCacheTime = 0
    /\ cachedPositions = WarmPositions
    /\ positionsCacheTime = 0
    /\ symbolInfoCache = EmptyTable
    /\ symbolInfoCacheTime = ZeroTime
    /\ ticks = 0
    /\ last = Idle
    /\ goroutines = [g \in Goroutines |-> NoGoroutine]
    /\ locks = [balance |-> [NoLock EXCEPT !.readAt = 0],
                positions |-> [NoLock EXCEPT !.readAt = 0], symbol |-> NoLock]

SpecWarm == InitWarm /\ [][NextConcurrent]_vars

----------------------------------------------------------------------------
\* The locks a goroutine holds, for reading or for writing.
Holds(g) == {m \in DOMAIN locks : g \in locks[m].readers \/ locks[m].writer = g}

\* The lock a goroutine is about to take or is waiting for.
Wants(g) ==
    {m \in DOMAIN locks : g \in locks[m].waiting}
    \cup (IF goroutines[g].pc = "s_rlock" THEN {"symbol"}
          ELSE IF At(g, "GetBalance", "rlock") THEN {"balance"}
          ELSE IF At(g, "GetPositions", "rlock") THEN {"positions"}
          ELSE {})

\* The goroutine is inside an operation and cannot take its next step: the
\* steps that can wait are RLock() and Lock().
Blocked(g) ==
    \E m \in Wants(g) :
        IF g \in locks[m].waiting THEN ~CanLock(m) ELSE ~CanRLock(m)

\* C21: lock independence.  A goroutine whose upstream call is in flight
\* holds no cache lock and waits for none; no goroutine holds two cache
\* locks, or waits for one while it holds another.  Hence a goroutine that
\* holds a lock can always take its next step (it never waits, for a lock or
\* for the network, with a lock in hand), a goroutine can be blocked only at
\* the lock of its own resource and only while another goroutine, itself
\* able to step, holds that lock or is inside its Lock(), and so some
\* goroutine can always step: the three locks cannot deadlock.
C21_LockIndependence ==
    \A g \in Goroutines :
        /\ goroutines[g].inflight => Holds(g) = {} /\ Wants(g) = {}
        /\ Cardinality(Holds(g)) <= 1
        /\ Wants(g) # {} => Holds(g) = {}
        /\ Holds(g) # {} => ~Blocked(g)
        /\ Blocked(g) =>
              /\ Cardinality(Wants(g)) = 1
              /\ \E h \in Goroutines \ {g} :
                    /\ Holds(h) = Wants(g) \/ Wants(h) = Wants(g)
                    /\ goroutines[h].pc # "idle"
                    /\ ~Blocked(h)

\* One goroutine waits for the contract list inside GetPositions while the
\* other holds the balance lock for writing and a third party could read the
\* positions: nobody holds the positions or the symbol lock.
C21_Witness ==
    /\ goroutines[1].op = "GetPositions"
    /\ goroutines[1].pc = "s_wait"
    /\ goroutines[1].inflight
    /\ locks.balance.writer = 2
    /\ locks.positions.readers = {} /\ locks.positions.writer = 0
    /\ locks.positions.waiting = {}
    /\ locks.symbol.readers = {} /\ locks.symbol.writer = 0
    /\ locks.symbol.waiting = {}

----------------------------------------------------------------------------
\* The goroutine has returned from the operation.
Returned(g, op) == At(g, op, "done")

\* Every goroutine is between two operations or has returned from one.
AllFinished == \A g \in Goroutines : goroutines[g].pc \in {"idle", "done"}

\* The goroutine has returned from an operation in which it fetched and
\* wrote the cache.
Refreshed(g, op) ==
    Returned(g, op) /\ goroutines[g].missed /\ goroutines[g].err = ""

\* C27: cache refresh is not deduplicated.  A caller of GetBalance or
\* GetPositions that finds the cache empty or stale makes one upstream fetch
\* of its own, whatever the other callers are doing (a caller served from
\* the cache makes none), and returns the value it fetched itself; once all
\* callers have finished, the cache holds the value and the time written by
\* the caller that took the write lock last.
C27_RefreshNotDeduplicated ==
    /\ \A g \in Goroutines :
          /\ Returned(g, "GetBalance") \/ Returned(g, "GetPositions") =>
                goroutines[g].fetches = (IF goroutines[g].missed THEN 1 ELSE 0)
          /\ Refreshed(g, "GetBalance") =>
                goroutines[g].outBalance = goroutines[g].balance
          /\ Refreshed(g, "GetPositions") =>
                goroutines[g].outPositions = goroutines[g].positions
    /\ AllFinished =>
          \A g \in Goroutines :
              /\ (Refreshed(g, "GetBalance") /\ locks.balance.lastWriter = g) =>
                    /\ cachedBalance = goroutines[g].balance
                    /\ balanceCacheTime = goroutines[g].stamp
              /\ (Refreshed(g, "GetPositions") /\ locks.positions.lastWriter = g) =>
                    /\ cachedPositions = goroutines[g].positions
                    /\ positionsCacheTime = goroutines[g].stamp

\* Two callers of GetBalance that ran together: the second wrote a second
\* after the first, so it had found the cache empty before the first wrote.
\* They fetched different balances and returned each its own; the cache
\* holds the second one's value and time.
C27_Witness ==
    /\ Refreshed(1, "GetBalance")
    /\ Refreshed(2, "GetBalance")
    /\ goroutines[1].balance # goroutines[2].balance
    /\ goroutines[1].outBalance = goroutines[1].balance
    /\ goroutines[2].outBalance = goroutines[2].balance
    /\ goroutines[2].stamp = goroutines[1].stamp + 1
    /\ locks.balance.lastWriter = 2
    /\ cachedBalance = goroutines[2].balance
    /\ balanceCacheTime = goroutines[2].stamp

----------------------------------------------------------------------------
\* The goroutine's getSymbolInfo has refreshed the table and done its lookup.
LookedUp(g) ==
    /\ goroutines[g].pc \in {"s_return", "append", "done"}
    /\ goroutines[g].list # <<>>

\* C31: under concurrent getSymbolInfo calls that each refresh the symbol
\* table, a call that refreshed returns the symbol-not-found error only if
\* the requested symbol is absent from the contract list the exchange
\* returned to it, and it never ends in any other failure: its lookup does
\* not see a table another refresh has replaced and is still rebuilding.
C31_LookupAfterRefresh ==
    \A g \in Goroutines :
        LookedUp(g) =>
            /\ goroutines[g].found = "SymbolNotFound" =>
                  goroutines[g].symbol \notin DOMAIN TableOf(goroutines[g].list)
            /\ goroutines[g].err # "ConcurrentMapAccess"

----------------------------------------------------------------------------
\* The cache resources whose value or time stamp the next step of the
\* goroutine reads or writes.
Touches(g) ==
    IF goroutines[g].pc \in {"s_check", "s_make", "s_fill", "s_lookup"} THEN {"symbol"}
    ELSE IF goroutines[g].op = "GetBalance" /\ goroutines[g].pc \in {"check", "hit", "write"}
    THEN {"balance"}
    ELSE IF goroutines[g].op = "GetPositions" /\ goroutines[g].pc \in {"check", "hit", "write"}
    THEN {"positions"}
    ELSE {}

\* The goroutine has returned from an operation served from the cache.
ServedHit(g, op) ==
    Returned(g, op) /\ ~goroutines[g].missed /\ goroutines[g].err = ""

\* A cache hit returned the value whose freshness it had checked.
HitReturnsChecked(g) ==
    /\ ServedHit(g, "GetBalance") => goroutines[g].outBalance = goroutines[g].seenBalance
    /\ ServedHit(g, "GetPositions") =>
          goroutines[g].outPositions = goroutines[g].seenPositions

\* C32: lock discipline.  A goroutine reads or writes a cached value or a
\* cache time stamp (balance, positions, symbol table) only while it holds
\* the lock of that resource, and the value a cache hit returns is the value
\* whose freshness was checked under the read lock, whatever a concurrent
\* refresh does in between.
C32_LockDiscipline ==
    \A g \in Goroutines :
        /\ Touches(g) \subseteq Holds(g)
        /\ HitReturnsChecked(g)

\* C32, the returned value alone: a hit returns what it checked.
C32_HitValue == \A g \in Goroutines : HitReturnsChecked(g)

----------------------------------------------------------------------------
\* A cache hit served a snapshot read from upstream less than the TTL before
\* the call.
HitWithinTTL(g) ==
    (ServedHit(g, "GetBalance") \/ ServedHit(g, "GetPositions")) => ~goroutines[g].old

\* The snapshot a step caches was not read from upstream before the snapshot
\* it replaces.
NotReplacedByOlder ==
    \A m \in {"balance", "positions"} : locks'[m].readAt >= locks[m].readAt

\* C33: bounded staleness.  A cache hit of GetBalance or GetPositions
\* returns a snapshot that was read from upstream less than the TTL (15 s)
\* before the call, and no step replaces a cached snapshot by one that was
\* read from upstream earlier, also when refreshes of a resource overlap.
C33_BoundedStaleness ==
    [][/\ \A g \in Goroutines : HitWithinTTL(g)'
       /\ NotReplacedByOlder]_vars

\* C33, the two halves on their own.
C33_HitAge == \A g \in Goroutines : HitWithinTTL(g)

C33_Replacement == [][NotReplacedByOlder]_vars

----------------------------------------------------------------------------
\* The step is the return of a failed upstream call to goroutine g.
UpstreamFailed(g) ==
    \/ \E account \in AccountResponses : account.err /\ BalanceResponse(g, account)
    \/ \E positions \in ConcurrentPositions :
          positions.err /\ PositionsResponse(g, positions)
    \/ \E contracts \in ConcurrentContracts :
          contracts.err /\ SymbolResponse(g, contracts)

\* Goroutine g has the error in hand and no value: GetBalance and
\* GetPositions have returned it, getSymbolInfo is about to.
HasUpstreamError(g) ==
    /\ goroutines[g].outBalance = NilBalance
    /\ goroutines[g].outPositions = NilPositions
    /\ IF goroutines[g].op = "getSymbolInfo" \/ goroutines[g].nested
       THEN /\ goroutines[g].pc = "s_return"
            /\ goroutines[g].found = "Upstream"
            /\ goroutines[g].info = NoContract
       ELSE /\ goroutines[g].pc = "done"
            /\ goroutines[g].err = "Upstream"

\* The goroutine that can write the cache of resource m: it holds the write
\* lock with the result of a successful upstream call.
Refreshing(m, g) ==
    /\ locks[m].writer = g
    /\ IF m = "symbol" THEN goroutines[g].list # <<>>
       ELSE goroutines[g].readAt # ZeroTime

CacheOf(m) ==
    IF m = "balance" THEN BalanceCache
    ELSE IF m = "positions" THEN PositionsCache
    ELSE SymbolCache

\* Goroutine g, at the freshness test, finds nothing it can serve.
Misses(g) ==
    \/ At(g, "GetBalance", "check") /\ ~BalanceFresh(BalanceCache)
    \/ At(g, "GetPositions", "check") /\ ~PositionsFresh(PositionsCache)
    \/ /\ goroutines[g].pc = "s_check"
       /\ ~(/\ goroutines[g].symbol \in DOMAIN symbolInfoCache
            /\ now - symbolInfoCacheTime < SymbolInfoTTL)

----------------------------------------------------------------------------
\* C35: the integer Size of every submitted order (open, close, stop-loss,
\* take-profit) equals in magnitude the decimal value of the string
\* FormatQuantity returned, so that no fractional part is dropped on the way
\* to the integer contract count, and it is never 0.
C35_IntegerSize ==
    last.op \in MarketOps \cup StopOps =>
        \A i \in Orders :
            /\ RatInt(Abs(last.calls[i].size)) = RatAbs(ParseOrZero(last.fq.str))
            /\ last.calls[i].size # 0

----------------------------------------------------------------------------
\* C36: SetStopLoss and SetTakeProfit reject no positionSide, and the order
\* they submit has a negative (sell) size exactly when positionSide is the
\* string LONG and a positive (buy) size for every other value, the
\* lowercase long / short of GetPositions included.
C36_StopSide ==
    (last.op \in StopOps /\ StepAt("FormatQuantity", TRUE) # {}) =>
        /\ Orders # {}
        /\ \A i \in Orders :
              IF last.positionSide = "LONG"
              THEN last.calls[i].size < 0
              ELSE last.calls[i].size > 0

\* C36 without the sizes that the integer conversion turns into 0: the sign
\* follows the comparison with the string LONG.
C36_StopSideNonzero ==
    (last.op \in StopOps /\ StepAt("FormatQuantity", TRUE) # {}) =>
        /\ Orders # {}
        /\ \A i \in Orders :
              IF last.positionSide = "LONG"
              THEN last.calls[i].size <= 0
              ELSE last.calls[i].size >= 0

----------------------------------------------------------------------------
\* The absolute raw contract counts the exchange reports for a position of
\* the last invocation's symbol on the side it closes (the environment has
\* one for each symbol and side).
ReportedCounts ==
    {Abs(r.list[k].Size) :
        <<r, k>> \in {<<r, k>> \in PositionsResponses \X (1..2) :
                        /\ k <= Len(r.list)
                        /\ DenormalizeSymbolFromGateIO(r.list[k].Contract) = last.symbol
                        /\ IF last.op = "CloseLong" THEN r.list[k].Size > 0
                           ELSE r.list[k].Size < 0}}

\* C37: a full close (quantity 0) submits a reduce-only order whose absolute
\* contract size is the absolute raw contract count the exchange reported
\* for the position, whatever the multiplier and whether or not the symbol
\* spec resolved when the positions snapshot was built and when the close
\* formats the quantity.
C37_FullCloseSize ==
    (FullCloseCase /\ Recorded # {}) =>
        \A i \in Orders :
            /\ last.calls[i].reduceOnly
            /\ Abs(last.calls[i].size) \in ReportedCounts

\* C37 with the spec available in the same way at both moments (the close
\* fetches the snapshot itself): the contract count survives the round trip.
C37_FullCloseSameSpec ==
    (FullCloseCase /\ Recorded # {} /\ StepAt("ListPositions", TRUE) # {}) =>
        \A i \in Orders :
            /\ last.calls[i].reduceOnly
            /\ Abs(last.calls[i].size) \in ReportedCounts

----------------------------------------------------------------------------
\* The cancel calls the last invocation made for the conditional order
\* (indices into last.calls).
CancelCalls(order) ==
    {i \in 1..Len(last.calls) :
        /\ last.calls[i].api = "CancelPriceTriggeredOrder"
        /\ last.calls[i].arg = NatToDigits(order.Id)}

\* A selective cancellation, or CancelStopOrders, got the list of
\* conditional orders.
StopOrdersListed ==
    /\ last.op \in SelectiveOps \cup {"CancelStopOrders"}
    /\ \E i \in 1..Len(last.calls) :
          last.calls[i].api = "ListPriceTriggeredOrders" /\ last.calls[i].ok

\* The order is selected for cancellation by the operation of that kind at
\* the position side and current price the last invocation saw.
Selected(kind, order) ==
    /\ SideSeen # ""
    /\ ~RatIsZero(CurrentPrice)
    /\ Classified(kind, order, SideSeen, CurrentPrice)

\* The trigger price of the order is empty, or is the current price.
AtPriceOrEmpty(order) ==
    \/ order.triggerPrice = <<>>
    \/ TriggerOf(order).ok /\ TriggerOf(order).val = CurrentPrice

\* C38: at a given current price and position side no conditional order
\* with a parseable trigger price is selected by both CancelStopLossOrders
\* and CancelTakeProfitOrders, and an order whose trigger price is the
\* current price or is empty is selected by neither: each selective
\* cancellation cancels the orders of its own selection, and CancelStopOrders
\* cancels a parseable order at most once and leaves those orders open.
C38_DisjointSelection ==
    StopOrdersListed =>
        \A order \in ListedOrders :
            /\ TriggerOf(order).ok =>
                  /\ ~(Selected("StopLoss", order) /\ Selected("TakeProfit", order))
                  /\ Cardinality(CancelCalls(order)) <= 1
            /\ AtPriceOrEmpty(order) =>
                  /\ ~Selected("StopLoss", order)
                  /\ ~Selected("TakeProfit", order)
                  /\ CancelCalls(order) = {}
            /\ last.op = "CancelStopLossOrders" =>
                  (CancelCalls(order) # {} <=> Selected("StopLoss", order))
            /\ last.op = "CancelTakeProfitOrders" =>
                  (CancelCalls(order) # {} <=> Selected("TakeProfit", order))
            /\ last.op = "CancelStopOrders" =>
                  (CancelCalls(order) # {}
                      <=> Selected("StopLoss", order) \/ Selected("TakeProfit", order))

\* Long at price 100: CancelStopOrders cancels the orders triggering at 90
\* and at 110, once each, and leaves open the one triggering at 100 and the
\* one without a trigger price.
C38_Witness ==
    /\ last.op = "CancelStopOrders"
    /\ last.err = ""
    /\ SideSeen = "long"
    /\ CurrentPrice = RatInt(100)
    /\ last.up.cancel.orders = SelectiveOrders
    /\ Cardinality(CancelCalls(SelectiveOrders[1])) = 1
    /\ Cardinality(CancelCalls(SelectiveOrders[2])) = 1
    /\ CancelCalls(SelectiveOrders[3]) = {}
    /\ CancelCalls(SelectiveOrders[6]) = {}

----------------------------------------------------------------------------
\* The record is of a GetMinOpenAmount that had the price, or of the open
\* that followed it.
MinOpenCase ==
    /\ last.op \in {"GetMinOpenAmount", "OpenLong"}
    /\ PriceSeen.err = ""

RatMax(x, y) == IF RatLt(x, y) THEN y ELSE x

\* The notional of the smallest orderable size of the spec at the price:
\* the minimum contract size, or one unit of the last decimal place of the
\* rounding precision when there is no minimum, times the multiplier.
SmallestOrderable(info, price) ==
    RatMul(RatMul(IF info.OrderSizeMin > 0 THEN RatInt(info.OrderSizeMin)
                  ELSE Rat(1, Pow10(PrecisionOf(info))),
                  QuantoMultiplierOf(info)),
           price)

\* C39: GetMinOpenAmount, when the price is available, returns 1.1 times
\* the larger of the minimum notional 10 and the notional of the smallest
\* orderable size, hence at least 11, and 12 when the symbol spec is
\* unavailable; the open whose coin quantity is that amount divided by the
\* same price passes the minimum-size and zero-after-rounding gate of
\* FormatQuantity and the minimum notional check.
C39_MinOpenAmount ==
    MinOpenCase =>
        /\ last.op = "GetMinOpenAmount" => last.err = ""
        /\ IF last.resolved
           THEN last.amount
                  = RatMul(Rat(11, 10),
                           RatMax(RatInt(MinNotional),
                                  SmallestOrderable(last.info, PriceSeen.price)))
           ELSE last.amount = RatInt(12)
        /\ RatLe(RatInt(11), last.amount)
        /\ last.op = "OpenLong" =>
              /\ RatMul(last.quantity, PriceSeen.price) = last.amount
              /\ last.fq.called
              /\ last.fq.resolved = last.resolved
              /\ last.fq.err = ""
              /\ StepAt("FormatQuantity", TRUE) # {}
              /\ StepAt("CheckMinNotional", TRUE) # {}
              /\ Orders # {}

\* The smallest orderable size is worth more than 10: one unit of the second
\* decimal place at a price of 200000; the open of 1.1 times that passes
\* both gates.
C39_Witness ==
    /\ last.op = "OpenLong"
    /\ last.resolved
    /\ last.info.OrderSizeMin = 0
    /\ last.amount = RatInt(2200)
    /\ StepAt("FormatQuantity", TRUE) # {}
    /\ StepAt("CheckMinNotional", TRUE) # {}

\* The symbol spec is unavailable: the amount is 12, and the open passes.
C39_WitnessDefault ==
    /\ last.op = "OpenLong"
    /\ ~last.resolved
    /\ last.amount = RatInt(12)
    /\ StepAt("CheckMinNotional", TRUE) # {}

====
